---- MODULE Spec2Model ----
(***************************************************************************)
(* Estimation / calibration core of the project-estimation pipeline.       *)
(*                                                                         *)
(* Strings are sequences of one-character strings.  Stored and answered    *)
(* hours are integers in tenths of an hour (100.0 h = 1000), an average    *)
(* is kept as the exact quotient total_hours / sample_size; efforts,       *)
(* totals and scores are Python floats, modelled bit for bit.              *)
(***************************************************************************)
EXTENDS Integers, Sequences, FiniteSets, TLC

(***************************************************************************)
(* Bounds of the model.                                                    *)
(***************************************************************************)
MaxNameLen == 3
MaxStore == 2
MaxSample == 4
MaxLoad == 1
MaxFeatures == 2
MaxSubs == 2

MaxPlanTotal == 1500

\* the largest total handed to the team recommendation, in half hours
MaxTeamTotal == 480

\* the requests handled at the same time
MaxRuns == 2

\* the modules the template expansion may select
MaxModules == 2

\* the largest max_retries an agent or a client is constructed with
MaxRetries == 2

\* the /estimate requests that arrive on top of the cache the run starts with
MaxEstimates == 5

\* the times an inbound email is delivered
MaxDeliveries == 2

(***************************************************************************)
(* Characters.                                                             *)
(***************************************************************************)
LowerLetters ==
    {"a","b","c","d","e","f","g","h","i","j","k","l","m",
     "n","o","p","q","r","s","t","u","v","w","x","y","z"}

Digits == {"0","1","2","3","4","5","6","7","8","9"}

Whitespace == {" "}

\* str.lower() on one character (the upper-case letters the model uses)
LowerChar(c) ==
    CASE c = "A" -> "a"
      [] c = "B" -> "b"
      [] c = "M" -> "m"
      [] c = "S" -> "s"
      [] c = "U" -> "u"
      [] OTHER -> c

\* the regex class \w after lower(): letters, digits and the underscore
IsWordChar(c) == c \in LowerLetters \cup Digits \cup {"_"}

RECURSIVE MapLower(_)
MapLower(s) ==
    IF s = << >> THEN << >> ELSE << LowerChar(Head(s)) >> \o MapLower(Tail(s))

IsAlnum(c) == c \in LowerLetters \cup Digits

\* a in b, for strings
IsSubstring(a, b) ==
    \E i \in 0..(Len(b) - Len(a)) : SubSeq(b, i + 1, i + Len(a)) = a

\* str.strip()
RECURSIVE LStrip(_)
LStrip(s) ==
    IF s # << >> /\ Head(s) \in Whitespace THEN LStrip(Tail(s)) ELSE s

RECURSIVE RStrip(_)
RStrip(s) ==
    IF s # << >> /\ s[Len(s)] \in Whitespace
    THEN RStrip(SubSeq(s, 1, Len(s) - 1)) ELSE s

Strip(s) == RStrip(LStrip(s))

\* str.split(): the maximal runs of non-whitespace characters, in order
RECURSIVE SplitFrom(_, _)
SplitFrom(s, cur) ==
    IF s = << >>
    THEN IF cur = << >> THEN << >> ELSE << cur >>
    ELSE IF Head(s) \in Whitespace
         THEN IF cur = << >> THEN SplitFrom(Tail(s), << >>)
              ELSE << cur >> \o SplitFrom(Tail(s), << >>)
         ELSE SplitFrom(Tail(s), Append(cur, Head(s)))

Split(s) == SplitFrom(s, << >>)

\* ' '.join(tokens)
RECURSIVE Join(_)
Join(toks) ==
    IF toks = << >> THEN << >>
    ELSE IF Len(toks) = 1 THEN Head(toks)
    ELSE Head(toks) \o << " " >> \o Join(Tail(toks))

SeqToSet(s) == { s[i] : i \in 1..Len(s) }

\* re.sub(r'[^\w\s]', ' ', s)
RECURSIVE PunctToSpace(_)
PunctToSpace(s) ==
    IF s = << >> THEN << >>
    ELSE << IF IsWordChar(Head(s)) \/ Head(s) \in Whitespace
            THEN Head(s) ELSE " " >> \o PunctToSpace(Tail(s))

\* re.sub(r'([a-z])([0-9])', r'\1 \2', s): leftmost, non-overlapping
RECURSIVE ExpandLetterDigit(_)
ExpandLetterDigit(s) ==
    IF Len(s) < 2 THEN s
    ELSE IF s[1] \in LowerLetters /\ s[2] \in Digits
         THEN << s[1], " ", s[2] >> \o ExpandLetterDigit(SubSeq(s, 3, Len(s)))
         ELSE << s[1] >> \o ExpandLetterDigit(Tail(s))

STOPWORDS ==
    { <<"u","s","e","r">>,
      <<"m","a","n","a","g","e","m","e","n","t">>,
      <<"s","y","s","t","e","m">>,
      <<"m","o","d","u","l","e">>,
      <<"s","e","r","v","i","c","e">>,
      <<"a","n","d">>,
      <<"&">>,
      <<"t","h","e">>,
      <<"a">>,
      <<"a","n">>,
      <<"f","o","r">>,
      <<"w","i","t","h">> }

\* re.sub(r'[^a-z0-9]+', '', name.lower())
_normalize_feature_name(name) == SelectSeq(MapLower(name), IsAlnum)

IsNotStopword(t) == t \notin STOPWORDS

normalize_for_matching(name) ==
    LET normalized == PunctToSpace(Strip(MapLower(name)))
        tokens == Split(normalized)
        filtered_tokens == SelectSeq(tokens, IsNotStopword)
    IN  Strip(Join(filtered_tokens))

(***************************************************************************)
(* Python floats.  A float is an IEEE 754 double m * 2^e with a 53-bit     *)
(* significand m, held in two limbs: m = hi * 2^27 + lo.  Only the         *)
(* non-negative finite values occur (hours, scores).  Every operation      *)
(* rounds to nearest, ties to even, as the hardware does.                  *)
(***************************************************************************)
Pow2(k) == 2 ^ k

LimbBase == Pow2(27)

\* floor((h * 2^27 + l) / 2^k) as limbs
DivPow2(h, l, k) ==
    IF k < 27
    THEN [h |-> h \div Pow2(k),
          l |-> (h % Pow2(k)) * Pow2(27 - k) + l \div Pow2(k)]
    ELSE [h |-> 0, l |-> IF k - 27 > 30 THEN 0 ELSE h \div Pow2(k - 27)]

\* (h * 2^27 + l) mod 2^k as limbs
ModPow2(h, l, k) ==
    IF k < 27
    THEN [h |-> 0, l |-> l % Pow2(k)]
    ELSE [h |-> IF k - 27 > 30 THEN h ELSE h % Pow2(k - 27), l |-> l]

FloatZero == [hi |-> 0, lo |-> 0, e |-> 0]

IsZero(x) == x.hi = 0 /\ x.lo = 0

\* the double for a 53-bit significand and the decision to round up
Pack(h, l, e, up) ==
    LET l1 == IF up THEN l + 1 ELSE l
        h1 == IF l1 = LimbBase THEN h + 1 ELSE h
        l2 == IF l1 = LimbBase THEN 0 ELSE l1
    IN  IF h1 = Pow2(26)
        THEN [hi |-> Pow2(25), lo |-> 0, e |-> e + 1]
        ELSE [hi |-> h1, lo |-> l2, e |-> e]

\* floor(log2(n)) for n >= 1
RECURSIVE IntLog2(_)
IntLog2(n) == IF n < 2 THEN 0 ELSE 1 + IntLog2(n \div 2)

\* the least z with n * 2^z >= den, for 1 <= n
RECURSIVE ScaleUp(_, _)
ScaleUp(n, den) == IF n >= den THEN 0 ELSE 1 + ScaleUp(2 * n, den)

\* long division: k more quotient bits of r / den appended to the limbs
RECURSIVE ShiftIn(_, _, _, _, _)
ShiftIn(h, l, r, den, k) ==
    IF k = 0 THEN [h |-> h, l |-> l, r |-> r]
    ELSE LET c == IF k < 8 THEN k ELSE 8
             t == r * Pow2(c)
         IN  ShiftIn(h * Pow2(c) + l \div Pow2(27 - c),
                     (l % Pow2(27 - c)) * Pow2(c) + t \div den,
                     t % den, den, k - c)

\* the double nearest to n / den: what a decimal literal, float(int) and
\* the string conversion inside round() produce
FloatFromRatio(n, den) ==
    IF n = 0 THEN FloatZero
    ELSE LET z == ScaleUp(n, den)
             i == (n * Pow2(z)) \div den
             p == IntLog2(i) - z
             q == ShiftIn(0, i, (n * Pow2(z)) % den, den, 52 - IntLog2(i))
         IN  Pack(q.h, q.l, p - 52,
                  2 * q.r > den \/ (2 * q.r = den /\ q.l % 2 = 1))

\* x + y
FloatAdd(x, y) ==
    IF IsZero(x) THEN y
    ELSE IF IsZero(y) THEN x
    ELSE
      LET a == IF x.e >= y.e THEN x ELSE y
          b == IF x.e >= y.e THEN y ELSE x
          d == a.e - b.e
          q == DivPow2(b.hi, b.lo, d)
          r == ModPow2(b.hi, b.lo, d)
          \* the two bits below the last place of a, and whether more follow
          g == IF d = 0 THEN 0
               ELSE IF d = 1 THEN 2 * r.l
               ELSE DivPow2(r.h, r.l, d - 2).l
          sticky == d >= 2 /\ ModPow2(r.h, r.l, d - 2) # [h |-> 0, l |-> 0]
          ls == a.lo + q.l
          l0 == ls % LimbBase
          h0 == a.hi + q.h + ls \div LimbBase
          over == h0 >= Pow2(26)
          h1 == IF over THEN h0 \div 2 ELSE h0
          l1 == IF over THEN l0 \div 2 + (h0 % 2) * Pow2(26) ELSE l0
          g1 == IF over THEN (l0 % 2) * 2 + g \div 2 ELSE g
          s1 == IF over THEN sticky \/ g % 2 = 1 ELSE sticky
          e1 == IF over THEN a.e + 1 ELSE a.e
      IN  IF d > 54 THEN a
          ELSE Pack(h1, l1, e1,
                    g1 = 3 \/ (g1 = 2 /\ (s1 \/ l1 % 2 = 1)))

\* the significand in four limbs of 14 bits, least significant first
Limbs14(x) ==
    << x.lo % Pow2(14),
       x.lo \div Pow2(14) + (x.hi % 2) * Pow2(13),
       (x.hi \div 2) % Pow2(14),
       x.hi \div Pow2(15) >>

\* x * y
FloatMul(x, y) ==
    IF IsZero(x) \/ IsZero(y) THEN FloatZero
    ELSE
      LET a == Limbs14(x)
          b == Limbs14(y)
          c0 == a[1] * b[1]
          c1 == a[1] * b[2] + a[2] * b[1] + c0 \div Pow2(14)
          c2 == a[1] * b[3] + a[2] * b[2] + a[3] * b[1] + c1 \div Pow2(14)
          c3 == a[1] * b[4] + a[2] * b[3] + a[3] * b[2] + a[4] * b[1]
                    + c2 \div Pow2(14)
          c4 == a[2] * b[4] + a[3] * b[3] + a[4] * b[2] + c3 \div Pow2(14)
          c5 == a[3] * b[4] + a[4] * b[3] + c4 \div Pow2(14)
          c6 == a[4] * b[4] + c5 \div Pow2(14)
          p0 == c0 % Pow2(14)
          p1 == c1 % Pow2(14)
          p2 == c2 % Pow2(14)
          p3 == c3 % Pow2(14)
          p4 == c4 % Pow2(14)
          p5 == c5 % Pow2(14)
          p6 == c6 % Pow2(14)
          p7 == c6 \div Pow2(14)
          \* the product has 106 bits when its top limb reaches 2^7
          t == IF p7 >= Pow2(7) THEN 11 ELSE 10
          lo == p3 \div Pow2(t) + p4 * Pow2(14 - t)
                    + (p5 % Pow2(t - 1)) * Pow2(28 - t)
          hi == p5 \div Pow2(t - 1) + p6 * Pow2(15 - t) + p7 * Pow2(29 - t)
          r3 == p3 % Pow2(t)
          rest == p0 # 0 \/ p1 # 0 \/ p2 # 0
      IN  Pack(hi, lo, x.e + y.e + 42 + t,
               r3 > Pow2(t - 1)
                  \/ (r3 = Pow2(t - 1) /\ (rest \/ lo % 2 = 1)))

\* x < y
FloatLess(x, y) ==
    IF IsZero(y) THEN FALSE
    ELSE IF IsZero(x) THEN TRUE
    ELSE \/ x.e < y.e
         \/ x.e = y.e /\ x.hi < y.hi
         \/ x.e = y.e /\ x.hi = y.hi /\ x.lo < y.lo

\* the integer nearest to 10 * x, ties to even, on the exact value of x
RoundTenths(x) ==
    IF IsZero(x) THEN 0
    ELSE
      LET l10 == x.lo * 10
          h == x.hi * 10 + l10 \div LimbBase
          l == l10 % LimbBase
          s == 0 - x.e
          q == DivPow2(h, l, s)
          n == q.h * LimbBase + q.l
          r == ModPow2(h, l, s)
          half == DivPow2(r.h, r.l, s - 1).l
          rest == ModPow2(r.h, r.l, s - 1) # [h |-> 0, l |-> 0]
      IN  IF half = 1 /\ (rest \/ n % 2 = 1) THEN n + 1 ELSE n

\* round(x, 1)
FloatRound1(x) == FloatFromRatio(RoundTenths(x), 10)

\* x <= y
FloatLeq(x, y) == ~FloatLess(y, x)

\* float(n / 10) for a value written with one decimal
FromTenths(n) == FloatFromRatio(n, 10)

\* sum(values): the additions run left to right from the int 0
RECURSIVE FloatSum(_, _)
FloatSum(values, acc) ==
    IF values = << >> THEN acc
    ELSE FloatSum(Tail(values), FloatAdd(acc, Head(values)))

(***************************************************************************)
(* CalibrationEngine.  _calibration_data is a dict: a sequence of entries  *)
(* with distinct keys, in insertion order (the order dict.keys() yields).  *)
(***************************************************************************)
\* the absent key / absent result (Python None)
None == << "None" >>

NoInfo == [is_none |-> TRUE, avg_num |-> 0, avg_den |-> 1, sample_size |-> 0]

HasKey(d, k) == \E i \in 1..Len(d) : d[i].key = k

\* d[k], for a key the dict holds
Get(d, k) == d[CHOOSE i \in 1..Len(d) : d[i].key = k]

\* d[k] = v: an existing key keeps its position, a new key goes last
Put(d, e) ==
    IF HasKey(d, e.key)
    THEN [i \in 1..Len(d) |-> IF d[i].key = e.key THEN e ELSE d[i]]
    ELSE Append(d, e)

\* a load that adds to the entry already stored under the key
RECURSIVE load_from_aggregated_data_Merging(_, _)
load_from_aggregated_data_Merging(d, aggregated_data) ==
    IF aggregated_data = << >> THEN d
    ELSE LET data == Head(aggregated_data)
             old == IF HasKey(d, data.key) THEN Get(d, data.key)
                    ELSE [key |-> data.key, total_hours |-> 0,
                          sample_size |-> 0]
         IN  load_from_aggregated_data_Merging(
                 Put(d, [key |-> data.key,
                         total_hours |-> old.total_hours
                                            + data.avg_hours * data.sample_size,
                         sample_size |-> old.sample_size + data.sample_size]),
                 Tail(aggregated_data))

RECURSIVE load_from_aggregated_data(_, _)
load_from_aggregated_data(d, aggregated_data) ==
    IF aggregated_data = << >> THEN d
    ELSE LET data == Head(aggregated_data)
         IN  load_from_aggregated_data(
                 Put(d, [key |-> data.key,
                         total_hours |-> data.avg_hours * data.sample_size,
                         sample_size |-> data.sample_size]),
                 Tail(aggregated_data))

\* an addition that files the entry under the name as given
add_calibration_data_RawKey(d, feature_name, actual_hours) ==
    LET old == IF HasKey(d, feature_name) THEN Get(d, feature_name)
               ELSE [key |-> feature_name, total_hours |-> 0,
                     sample_size |-> 0]
    IN  Put(d, [key |-> feature_name,
                total_hours |-> old.total_hours + actual_hours,
                sample_size |-> old.sample_size + 1])

\* the entry is created empty when the key is new, then the hours are
\* added and the sample counted
add_calibration_data(d, feature_name, actual_hours) ==
    LET normalized_name == _normalize_feature_name(feature_name)
        old == IF HasKey(d, normalized_name) THEN Get(d, normalized_name)
               ELSE [key |-> normalized_name, total_hours |-> 0,
                     sample_size |-> 0]
    IN  Put(d, [key |-> normalized_name,
                total_hours |-> old.total_hours + actual_hours,
                sample_size |-> old.sample_size + 1])

\* the loop body with an exclusive threshold, overlap_score > 0.6
FuzzyStep_StrictThreshold(best, data, feature_normalized_full, feature_tokens) ==
    LET calibrated_key == data.key
        calibrated_tokens == SeqToSet(Split(ExpandLetterDigit(calibrated_key)))
        overlap == Cardinality(feature_tokens \cap calibrated_tokens)
        total == Cardinality(feature_tokens \cup calibrated_tokens)
        better == IF data.sample_size > best[2]
                  THEN << calibrated_key, data.sample_size >> ELSE best
    IN  IF data.sample_size < 2 THEN best
        ELSE IF IsSubstring(calibrated_key, feature_normalized_full)
                \/ IsSubstring(feature_normalized_full, calibrated_key)
             THEN better
        ELSE IF calibrated_tokens = {} THEN best
        ELSE IF total > 0 /\ 10 * overlap > 6 * total THEN better
        ELSE best

\* one iteration of the loop of _fuzzy_match over an entry; best is
\* <<best_match, best_sample_size>>
FuzzyStep(best, data, feature_normalized_full, feature_tokens) ==
    LET calibrated_key == data.key
        calibrated_tokens == SeqToSet(Split(ExpandLetterDigit(calibrated_key)))
        overlap == Cardinality(feature_tokens \cap calibrated_tokens)
        total == Cardinality(feature_tokens \cup calibrated_tokens)
        better == IF data.sample_size > best[2]
                  THEN << calibrated_key, data.sample_size >> ELSE best
    IN  IF data.sample_size < 2 THEN best
        ELSE IF IsSubstring(calibrated_key, feature_normalized_full)
                \/ IsSubstring(feature_normalized_full, calibrated_key)
             THEN better
        ELSE IF calibrated_tokens = {} THEN best
        \* overlap / total >= 0.6
        ELSE IF total > 0 /\ 10 * overlap >= 6 * total THEN better
        ELSE best

RECURSIVE FuzzyLoop(_, _, _, _)
FuzzyLoop(d, best, full, toks) ==
    IF d = << >> THEN best
    ELSE FuzzyLoop(Tail(d), FuzzyStep(best, Head(d), full, toks), full, toks)

_fuzzy_match(d, feature_name) ==
    LET feature_normalized_full == _normalize_feature_name(feature_name)
        feature_normalized_tokens == normalize_for_matching(feature_name)
        feature_tokens == SeqToSet(Split(feature_normalized_tokens))
    IN  IF feature_tokens = {} THEN None
        ELSE FuzzyLoop(d, << None, 0 >>,
                       feature_normalized_full, feature_tokens)[1]

\* the scan consulted before the exact entry
MatchedKey_FuzzyFirst(d, feature_name) ==
    LET normalized_name == _normalize_feature_name(feature_name)
        matched_key == _fuzzy_match(d, feature_name)
    IN  IF matched_key # None /\ matched_key # << >>
           /\ Get(d, matched_key).sample_size > 0
        THEN matched_key
        ELSE IF HasKey(d, normalized_name)
                /\ Get(d, normalized_name).sample_size > 0
        THEN normalized_name
        ELSE None

\* the key whose entry get_calibration_info reports, None when it returns None
MatchedKey(d, feature_name) ==
    LET normalized_name == _normalize_feature_name(feature_name)
        matched_key == _fuzzy_match(d, feature_name)
    IN  IF HasKey(d, normalized_name) /\ Get(d, normalized_name).sample_size > 0
        THEN normalized_name
        \* "if matched_key:" is false for None and for the empty string
        ELSE IF matched_key # None /\ matched_key # << >>
                /\ Get(d, matched_key).sample_size > 0
        THEN matched_key
        ELSE None

get_calibration_info(d, feature_name) ==
    LET k == MatchedKey(d, feature_name)
    IN  IF k = None THEN NoInfo
        ELSE [is_none |-> FALSE,
              avg_num |-> Get(d, k).total_hours,
              avg_den |-> Get(d, k).sample_size,
              sample_size |-> Get(d, k).sample_size]

(***************************************************************************)
(* Inputs.                                                                 *)
(***************************************************************************)
SeqsUpTo(S, n) == UNION { [1..k -> S] : k \in 0..n }

NameChars == {"a", "b", "1", " "}

\* longer names: stopword-only names, punctuation, upper case, underscore,
\* and names whose token overlap with the key "b1b2" is 2/3, 3/5 and 3/6
SpecialNames ==
    { <<"U","s","e","r"," ","M","a","n","a","g","e","m","e","n","t"," ",
        "S","y","s","t","e","m">>,
      <<"B","-","1">>,
      <<"b","_","1">>,
      <<"2"," ","b">>,
      <<"2"," ","1","b"," ","b"," ","1"," ","b","b">>,
      <<"2"," ","1","b"," ","b"," ","1"," ","b","b"," ","1","1">> }

\* the names that reach the matcher: upstream normalization trims every
\* name and drops the empty ones
Names ==
    { n \in SeqsUpTo(NameChars, MaxNameLen) : n # << >> /\ Strip(n) = n }
        \cup SpecialNames

\* keys of the aggregated data handed to load_from_aggregated_data: the
\* loader normalizes them and drops the empty one
RawKeys == { <<"a","b">>, <<"b","1">>, <<"b","1","b","2">>,
             <<"u","s","e","r">> }

\* averages of the aggregated data, in tenths of an hour
AvgValues == {500, 1000}

\* every aggregated record stands for at least one observed row
AggregatedEntries ==
    [key : RawKeys, avg_hours : AvgValues, sample_size : 1..MaxSample]

DistinctKeys(d) == \A i, j \in 1..Len(d) : d[i].key = d[j].key => i = j

AggregatedData ==
    { a \in SeqsUpTo(AggregatedEntries, MaxLoad) : DistinctKeys(a) }

(***************************************************************************)
(* State.                                                                  *)
(***************************************************************************)
VARIABLES
    store,      \* CalibrationEngine._calibration_data
    query,      \* the name get_calibration_info was last called with
    matched,    \* the key of the entry it reported
    info,       \* the value it returned
    pc,                  \* where the current run of the pipeline stands
    raw_feature,         \* the raw feature _normalize_features saw last
    raw_seen,            \* raw features it has gone through
    features,            \* the structured features, input of execute
    fi,                  \* index of the next feature the outer loop scans
    estimated_features,  \* the list execute builds
    unmatched_items,     \* the deferred items collected so far
    llm_calls,           \* calls of _llm_estimate_batch issued in the run
    llm_request,         \* the items handed to that call
    llm_outcome,         \* what the external call produced
    llm_response,        \* the "hours" array of the response
    llm_estimates,       \* the list _llm_estimate_batch returned
    result,              \* the value execute returned
    confidence_args,     \* the arguments of calculate_confidence
    confidence_score,    \* the value it returned
    plan_total,          \* total_hours handed to _compute_phase_breakdown
    plan_pc,             \* whether the phase split was computed
    phase_breakdown,     \* the value it returned
    team_total,          \* total_hours handed to _compute_team_recommendation,
                         \* in tenths of an hour
    team_weeks,          \* timeline_weeks, in tenths of a week
    team_pc,             \* whether the recommendation was computed
    team_recommendation, \* the value it returned
    store_call,          \* the last call that changed the store, with the
                         \* store as it was before the call
    load_outcome,        \* how the load of ProjectPipeline.__init__ ended
    run_pc,              \* per request: where its run stands
    run_features,        \* per request: the structured features
    run_estimated,       \* per request: estimated_features
    run_unmatched,       \* per request: unmatched_items
    run_result,          \* per request: the value execute returned
    run_confidence,      \* per request: the confidence score
    graph_node,          \* the node of the pipeline graph that runs next
    graph_ran,           \* the nodes that have run, in order
    graph_state,         \* the PipelineState fields the events are built from
    graph_events,        \* the events the progress callback has received
    max_retries,         \* self.max_retries of the agent or client
    call_entry,          \* the method called: call_llm or complete
    call_pc,             \* where the call stands
    attempt,             \* the loop variable of the retry loop
    last_exception,      \* the variable of that name
    http_log,            \* what each HTTP attempt of the call produced
    call_result,         \* the value the call returned or what it raised
    _estimation_cache,   \* the dict of that name, in insertion order
    uuids_issued,        \* the request ids generated so far
    estimate_inflight,   \* per handler of /estimate: the result it awaits
    cache_call,          \* the last insertion, with the cache before it
    proposal_lookup,     \* the last lookup by request_id and what it found
    email,               \* the inbound email every delivery carries
    email_estimate_requests,  \* the rows of the table of that name
    email_pc,            \* per delivery: where process_inbound_email stands
    row_id,              \* per delivery: the variable of that name
    emails_sent,         \* the calls of the send functions, in order
    modify_store,        \* _calibration_data of the engine main.py creates
    estimate_scan,       \* what the /estimate agent made of a subfeature
    modify_scan          \* what the /modify agent made of a subfeature

matchVars == << query, matched, info >>

structVars == << raw_feature, raw_seen >>

llmVars == << llm_calls, llm_request, llm_outcome, llm_response,
              llm_estimates >>

confVars == << confidence_args, confidence_score >>

execVars == << pc, features, fi, estimated_features, unmatched_items, result,
               structVars, llmVars, confVars >>

planVars == << plan_total, plan_pc, phase_breakdown >>

teamVars == << team_total, team_weeks, team_pc, team_recommendation >>

\* the variables of the parts modelled on their own
runVars == << run_pc, run_features, run_estimated, run_unmatched, run_result,
             run_confidence >>

graphVars == << graph_node, graph_ran, graph_state, graph_events >>

callVars == << max_retries, call_entry, call_pc, attempt, last_exception,
              http_log, call_result >>

cacheVars == << _estimation_cache, uuids_issued, estimate_inflight,
               cache_call, proposal_lookup >>

emailVars == << email, email_estimate_requests, email_pc, row_id,
               emails_sent >>

modifyVars == << modify_store, estimate_scan, modify_scan >>

\* the variables of the services around the pipeline
restVars == << callVars, cacheVars, emailVars, modifyVars >>

\* the variables of the parts that never touch the store or a run
laterVars == << graphVars, restVars >>

\* everything but the variables in laterVars
baseVars == << store, matchVars, execVars, planVars, teamVars, store_call,
              load_outcome, runVars >>

otherVars == << teamVars, store_call, load_outcome, runVars, laterVars >>

\* what the actions of each service leave alone
callFrame == << baseVars, graphVars, cacheVars, emailVars, modifyVars >>

cacheFrame == << baseVars, graphVars, callVars, emailVars, modifyVars >>

emailFrame == << baseVars, graphVars, callVars, cacheVars, modifyVars >>

modifyFrame == << matchVars, execVars, planVars, teamVars, store_call,
                  runVars, graphVars, callVars, cacheVars, emailVars >>

vars == << store, matchVars, execVars, planVars, otherVars >>

(***************************************************************************)
(* The matcher on its own: a store built by loads, then lookups.           *)
(***************************************************************************)
NoResult == [total_hours |-> FloatZero, min_hours |-> FloatZero,
             max_hours |-> FloatZero, features |-> << >>,
             breakdown |-> << >>]

\* no raw feature is at hand
NoRawFeature ==
    [is_dict |-> FALSE, name |-> << >>, complexity |-> "Medium",
     subfeatures |-> << >>]

NoConfidenceArgs == [domain_confidence |-> 0, has_engine |-> FALSE]

NoPhases == [frontend |-> FloatZero, backend |-> FloatZero,
             qa |-> FloatZero, pm_ba |-> FloatZero]

InitExec ==
    /\ pc = "idle"
    /\ raw_feature = NoRawFeature
    /\ raw_seen = 0
    /\ features = << >>
    /\ fi = 1
    /\ estimated_features = << >>
    /\ unmatched_items = << >>
    /\ llm_calls = 0
    /\ llm_request = << >>
    /\ llm_outcome = "none"
    /\ llm_response = << >>
    /\ llm_estimates = << >>
    /\ result = NoResult
    /\ confidence_args = NoConfidenceArgs
    /\ confidence_score = FloatZero

InitPlanning ==
    /\ plan_total = FloatZero
    /\ plan_pc = "idle"
    /\ phase_breakdown = NoPhases

\* no call has changed the store
NoStoreCall ==
    [op |-> "none", aggregated_data |-> << >>, feature_name |-> << >>,
     actual_hours |-> 0, before |-> << >>]

NoTeam == [frontend |-> 0, backend |-> 0, qa |-> 0, pm |-> 0]

InitTeam ==
    /\ team_total = 0
    /\ team_weeks = 0
    /\ team_pc = "idle"
    /\ team_recommendation = NoTeam

\* the parts modelled on their own, at rest
\* the requests in flight
Runs == 1..MaxRuns

InitRuns ==
    /\ run_pc = [r \in Runs |-> "idle"]
    /\ run_features = [r \in Runs |-> << >>]
    /\ run_estimated = [r \in Runs |-> << >>]
    /\ run_unmatched = [r \in Runs |-> << >>]
    /\ run_result = [r \in Runs |-> NoResult]
    /\ run_confidence = [r \in Runs |-> FloatZero]

NoFinalResult ==
    [built |-> FALSE, domain |-> "", feature_count |-> 0, total_hours |-> 0]

\* the state a graph run starts from, before the caller sets the callback
NoGraphState ==
    [has_callback |-> FALSE, detected_domain |-> "", modules_selected |-> 0,
     feature_count |-> 0, total_hours |-> 0, final_result |-> NoFinalResult]

InitGraph ==
    /\ graph_node = "__start__"
    /\ graph_ran = << >>
    /\ graph_state = NoGraphState
    /\ graph_events = << >>

NoException == [type |-> "", attempt |-> 0]

NoCallResult == [raised |-> "", error |-> NoException, content |-> ""]

InitCall ==
    /\ max_retries = 2
    /\ call_entry = "call_llm"
    /\ call_pc = "idle"
    /\ attempt = 0
    /\ last_exception = NoException
    /\ http_log = << >>
    /\ call_result = NoCallResult

NoEstimate == [request_id |-> 0]

NoCacheCall == [before |-> << >>, result |-> NoEstimate]

NoLookup == [request_id |-> 0, cached |-> NoEstimate]

InitCache ==
    /\ _estimation_cache = << >>
    /\ uuids_issued = 0
    /\ estimate_inflight = [r \in Runs |-> NoEstimate]
    /\ cache_call = NoCacheCall
    /\ proposal_lookup = NoLookup

Deliveries == 1..MaxDeliveries

NoEmail == [message_id |-> "", content |-> "text"]

InitEmail ==
    /\ email = NoEmail
    /\ email_estimate_requests = << >>
    /\ email_pc = [d \in Deliveries |-> "idle"]
    /\ row_id = [d \in Deliveries |-> 0]
    /\ emails_sent = << >>

NoScan == [name |-> << >>, matched |-> None, was_calibrated |-> FALSE,
           effort |-> FloatZero]

InitModify ==
    /\ modify_store = << >>
    /\ estimate_scan = NoScan
    /\ modify_scan = NoScan

InitRest == InitCall /\ InitCache /\ InitEmail /\ InitModify

InitLater == InitGraph /\ InitRest

\* the engine, the pipeline run and the parts on their own, at rest
InitBase ==
    /\ store = << >>
    /\ query = None
    /\ matched = None
    /\ info = NoInfo
    /\ InitExec
    /\ InitPlanning
    /\ InitTeam
    /\ store_call = NoStoreCall
    /\ load_outcome = "loaded"
    /\ InitRuns

InitOther ==
    /\ InitTeam
    /\ store_call = NoStoreCall
    /\ load_outcome = "loaded"
    /\ InitRuns
    /\ InitLater

InitMatcher ==
    /\ store = << >>
    /\ query = None
    /\ matched = None
    /\ info = NoInfo
    /\ InitExec
    /\ InitPlanning
    /\ InitOther

LoadFromAggregatedData(aggregated_data) ==
    /\ query = None
    /\ Len(load_from_aggregated_data(store, aggregated_data)) <= MaxStore
    /\ store' = load_from_aggregated_data(store, aggregated_data)
    /\ UNCHANGED << matchVars, execVars, planVars, otherVars >>

GetCalibrationInfo(feature_name) ==
    /\ query = None
    /\ query' = feature_name
    /\ matched' = MatchedKey(store, feature_name)
    /\ info' = get_calibration_info(store, feature_name)
    /\ UNCHANGED << store, execVars, planVars, otherVars >>

\* the caller has taken the returned value
ReturnCalibrationInfo ==
    /\ query # None
    /\ query' = None
    /\ matched' = None
    /\ info' = NoInfo
    /\ UNCHANGED << store, execVars, planVars, otherVars >>

NextMatcher ==
    \/ query = None /\ \E a \in AggregatedData : LoadFromAggregatedData(a)
    \/ query = None /\ \E n \in Names : GetCalibrationInfo(n)
    \/ ReturnCalibrationInfo

SpecMatcher == InitMatcher /\ [][NextMatcher]_vars

(***************************************************************************)
(* The tiers of the matching contract, stated on a key and a name.         *)
(***************************************************************************)
StrictKey(name) == _normalize_feature_name(name)

NameTokens(name) == SeqToSet(Split(normalize_for_matching(name)))

KeyTokens(key) == SeqToSet(Split(ExpandLetterDigit(key)))

TierB(key, name) ==
    IsSubstring(key, StrictKey(name)) \/ IsSubstring(StrictKey(name), key)

JaccardNum(key, name) == Cardinality(NameTokens(name) \cap KeyTokens(key))

JaccardDen(key, name) == Cardinality(NameTokens(name) \cup KeyTokens(key))

\* overlap >= 0.6, as 5 * |intersection| >= 3 * |union|
OverlapAtLeast06(key, name) ==
    /\ JaccardDen(key, name) > 0
    /\ 5 * JaccardNum(key, name) >= 3 * JaccardDen(key, name)

TierC(key, name) == ~TierB(key, name) /\ OverlapAtLeast06(key, name)

\* the usable candidates of the scan for a name
Candidates(d, name) ==
    { i \in 1..Len(d) :
        /\ d[i].sample_size >= 2
        /\ TierB(d[i].key, name) \/ TierC(d[i].key, name) }

TierAApplies(d, name) ==
    HasKey(d, StrictKey(name)) /\ Get(d, StrictKey(name)).sample_size >= 2

Queried == query # None

InfoOf(e) ==
    [is_none |-> FALSE, avg_num |-> e.total_hours, avg_den |-> e.sample_size,
     sample_size |-> e.sample_size]

(***************************************************************************)
(* C2: the matcher never returns an entry whose sample_size is below 2,    *)
(* not even an entry stored under the name's strict key.                   *)
(***************************************************************************)
C2_SampleFloor ==
    (Queried /\ ~info.is_none) => info.sample_size >= 2

(***************************************************************************)
(* C3: when the store holds an entry under the name's strict key with      *)
(* sample_size >= 2, the matcher returns exactly that entry, whatever      *)
(* other candidates exist and however large their sample sizes are.        *)
(***************************************************************************)
C3_TierAFirst ==
    (Queried /\ TierAApplies(store, query)) =>
        /\ matched = StrictKey(query)
        /\ info = InfoOf(Get(store, StrictKey(query)))

\* an exact entry was returned although a substring candidate has more samples
C3_Witness ==
    /\ Queried
    /\ TierAApplies(store, query)
    /\ matched = StrictKey(query)
    /\ \E i \in Candidates(store, query) :
          /\ store[i].key # StrictKey(query)
          /\ store[i].sample_size > info.sample_size

(***************************************************************************)
(* C5: when no exact match applies, the returned entry has sample_size     *)
(* >= 2 and a sample size at least that of every Tier B or Tier C          *)
(* candidate with sample_size >= 2; absent is returned only when there is  *)
(* no such candidate.                                                      *)
(***************************************************************************)
C5_LargestSample ==
    (Queried /\ ~TierAApplies(store, query)) =>
        /\ ~info.is_none =>
              /\ info.sample_size >= 2
              /\ \A i \in Candidates(store, query) :
                    info.sample_size >= store[i].sample_size
        /\ info.is_none => Candidates(store, query) = {}

(***************************************************************************)
(* C6: every entry with sample_size >= 2 whose key contains the name's     *)
(* strict key, or is contained in it, is a match candidate, so the matcher *)
(* never returns absent while such an entry exists (names made only of     *)
(* stopwords included).                                                    *)
(***************************************************************************)
C6_SubstringCandidate ==
    (Queried /\ \E i \in 1..Len(store) :
                   store[i].sample_size >= 2 /\ TierB(store[i].key, query))
        => ~info.is_none

(***************************************************************************)
(* C7: an entry that is not a substring candidate is a Tier C candidate    *)
(* exactly when the Jaccard ratio of the name's stopword-filtered tokens   *)
(* and the tokens of the expanded key is at least 0.6 (inclusive): an      *)
(* entry matched without a substring relation has ratio >= 0.6, and where  *)
(* no entry lies under the strict key and no substring candidate exists,   *)
(* an entry with sample_size >= 2 and ratio >= 0.6 is matched.             *)
(***************************************************************************)
C7_TokenOverlap ==
    (Queried /\ ~HasKey(store, StrictKey(query))) =>
        /\ (matched # None /\ ~TierB(matched, query))
              => OverlapAtLeast06(matched, query)
        /\ (\A i \in Candidates(store, query) : TierC(store[i].key, query))
              => (\A i \in Candidates(store, query) :
                     /\ matched # None
                     /\ TierC(matched, query)
                     /\ info.sample_size >= store[i].sample_size)

\* an entry whose ratio is exactly 3/5 was matched through Tier C
C7_Witness ==
    /\ Queried
    /\ ~HasKey(store, StrictKey(query))
    /\ matched # None
    /\ TierC(matched, query)
    /\ 5 * JaccardNum(matched, query) = 3 * JaccardDen(matched, query)

(***************************************************************************)
(* C8: two stores holding the same key-to-entry mapping, built by          *)
(* installing the entries in different orders, give the same entry for     *)
(* every feature name.                                                     *)
(***************************************************************************)
Reorderings(d) ==
    { p \in [1..Len(d) -> SeqToSet(d)] : SeqToSet(p) = SeqToSet(d) }

C8_OrderIndependent ==
    Queried => \A p \in Reorderings(store) :
                   get_calibration_info(p, query) = info

(***************************************************************************)
(* FeatureStructuringAgent._normalize_features.  A raw feature is an item  *)
(* of the "features" array the language model answered with.               *)
(***************************************************************************)
valid_complexities == {"low", "medium", "high"}

\* str.lower() and str.capitalize() on the complexity labels
LowerLabel(c) ==
    CASE c = "Low" -> "low"
      [] c = "Medium" -> "medium"
      [] c = "High" -> "high"
      [] OTHER -> c

Capitalize(c) ==
    CASE c = "low" -> "Low"
      [] c = "medium" -> "Medium"
      [] c = "high" -> "High"
      [] OTHER -> c

\* a loop that keeps the subfeatures whose name is empty
RECURSIVE NormalizeSubfeatures_KeepEmpty(_)
NormalizeSubfeatures_KeepEmpty(raw_subfeatures) ==
    IF raw_subfeatures = << >> THEN << >>
    ELSE LET sf == Head(raw_subfeatures)
         IN  (IF sf.kind \in {"dict", "str"}
              THEN << Strip(sf.name) >> ELSE << >>)
             \o NormalizeSubfeatures_KeepEmpty(Tail(raw_subfeatures))

\* the loop over raw_subfeatures: names are trimmed, empty ones dropped
RECURSIVE NormalizeSubfeatures(_)
NormalizeSubfeatures(raw_subfeatures) ==
    IF raw_subfeatures = << >> THEN << >>
    ELSE LET sf == Head(raw_subfeatures)
         IN  (IF sf.kind \in {"dict", "str"} /\ Strip(sf.name) # << >>
              THEN << Strip(sf.name) >> ELSE << >>)
             \o NormalizeSubfeatures(Tail(raw_subfeatures))

\* an iteration without the "if not name: continue"
NormalizeOne_KeepUnnamed(feature) ==
    LET name == Strip(feature.name)
        complexity == IF LowerLabel(feature.complexity) \in valid_complexities
                      THEN LowerLabel(feature.complexity) ELSE "medium"
        subfeatures == NormalizeSubfeatures(feature.subfeatures)
    IN  IF ~feature.is_dict THEN << >>
        ELSE << [name |-> name,
                 complexity |-> Capitalize(complexity),
                 subfeatures |-> IF subfeatures = << >>
                                 THEN << name >> ELSE subfeatures] >>

\* one iteration of "for feature in features": the features it appends
NormalizeOne(feature) ==
    LET name == Strip(feature.name)
        complexity == IF LowerLabel(feature.complexity) \in valid_complexities
                      THEN LowerLabel(feature.complexity) ELSE "medium"
        subfeatures == NormalizeSubfeatures(feature.subfeatures)
    IN  IF ~feature.is_dict \/ name = << >> THEN << >>
        ELSE << [name |-> name,
                 complexity |-> Capitalize(complexity),
                 subfeatures |-> IF subfeatures = << >>
                                 THEN << name >> ELSE subfeatures] >>

(***************************************************************************)
(* EstimationAgent.                                                        *)
(***************************************************************************)
\* 1.20, in hundredths
BUFFER_MULTIPLIER == 120

\* the fallback of 16.0 raw hours, in tenths
FALLBACK_HOURS == 160

\* round(num / den, 0) of Python: to the nearest integer, ties to even
RoundHalfEven(num, den) ==
    LET q == num \div den
        r == num % den
    IN  IF 2 * r < den THEN q
        ELSE IF 2 * r > den THEN q + 1
        ELSE IF q % 2 = 0 THEN q ELSE q + 1

\* the buffer applied to an already buffered value
Buffered_Twice(num, den) ==
    RoundHalfEven(RoundHalfEven(num * BUFFER_MULTIPLIER, den * 100)
                      * BUFFER_MULTIPLIER, 100)

\* round(raw_hours * BUFFER_MULTIPLIER, 1), in tenths, for raw_hours =
\* num / den tenths.  raw_hours has one decimal (an average the loader
\* rounded, or an answered number), so 12 * raw_hours is an even number of
\* hundredths: the float product lies 0.002 or more from every tie, far
\* beyond its rounding error, and round() gives the digit of the exact
\* product.
Buffered(num, den) == RoundHalfEven(num * BUFFER_MULTIPLIER, den * 100)

\* one iteration of the inner loop of execute, given the calibration_info
\* looked up for sf_name; acc holds estimated_subfeatures, feature_total,
\* feature_calibrated and the items this feature adds to unmatched_items
ScanSubfeature(calibration_info, feature_name, complexity, sf_name, acc) ==
    LET was_calibrated == ~calibration_info.is_none
                          /\ calibration_info.sample_size >= 2
        final_hours == FromTenths(Buffered(calibration_info.avg_num,
                                           calibration_info.avg_den))
    IN  IF sf_name = << >> THEN acc
        ELSE IF was_calibrated
        THEN [acc EXCEPT
                !.estimated_subfeatures =
                    Append(@, [name |-> sf_name, effort |-> final_hours,
                               was_calibrated |-> TRUE,
                               _pending_llm |-> FALSE]),
                !.feature_total = FloatAdd(@, final_hours),
                !.feature_calibrated = TRUE]
        ELSE [acc EXCEPT
                !.estimated_subfeatures =
                    Append(@, [name |-> sf_name, effort |-> FloatZero,
                               was_calibrated |-> FALSE,
                               _pending_llm |-> TRUE]),
                !.unmatched =
                    Append(@, [feature |-> feature_name,
                               subfeature |-> sf_name,
                               complexity |-> complexity])]

\* "for sf in subfeatures"
RECURSIVE ScanSubfeatures(_, _, _, _, _)
ScanSubfeatures(d, feature_name, complexity, subfeatures, acc) ==
    IF subfeatures = << >> THEN acc
    ELSE ScanSubfeatures(d, feature_name, complexity, Tail(subfeatures),
             ScanSubfeature(get_calibration_info(d, Head(subfeatures)),
                            feature_name, complexity,
                            Head(subfeatures), acc))

\* one iteration of the outer loop of execute
ScanFeatureBody(d, feature) ==
    LET feature_name == feature.name
        complexity == LowerLabel(feature.complexity)
        subfeatures == IF feature.subfeatures = << >>
                       THEN << feature_name >> ELSE feature.subfeatures
        acc == ScanSubfeatures(d, feature_name, complexity, subfeatures,
                 [estimated_subfeatures |-> << >>, feature_total |-> FloatZero,
                  feature_calibrated |-> FALSE, unmatched |-> << >>])
    IN  [estimated |-> [name |-> feature_name,
                        complexity |-> Capitalize(complexity),
                        total_hours |-> acc.feature_total,
                        subfeatures |-> acc.estimated_subfeatures,
                        was_calibrated |-> acc.feature_calibrated],
         unmatched |-> acc.unmatched]

(***************************************************************************)
(* The external size estimate.  An outcome of call_llm is either an        *)
(* exception or a response text, told apart by how far the parsing of      *)
(* _llm_estimate_batch gets with it.  An entry of the "hours" array is a   *)
(* JSON value: a number (in tenths), a boolean or a string.                *)
(***************************************************************************)
FailureKinds ==
    { "http_error",        \* call_llm raises httpx.HTTPError after its retries
      "timeout",           \* call_llm raises httpx.TimeoutException
      "invalid_structure", \* call_llm raises ValueError
      "malformed_json",    \* parse_json_response raises ValueError
      "json_not_object",   \* parsed.get raises AttributeError
      "hours_not_sized" }  \* "hours" is a number: len() raises TypeError

\* the exception raised inside the try block of _llm_estimate_batch
RaisedInside(outcome) ==
    CASE outcome.kind = "http_error" -> "HTTPError"
      [] outcome.kind = "timeout" -> "TimeoutException"
      [] outcome.kind = "invalid_structure" -> "ValueError"
      [] outcome.kind = "malformed_json" -> "ValueError"
      [] outcome.kind = "json_not_object" -> "AttributeError"
      [] outcome.kind = "hours_not_sized" -> "TypeError"
      [] OTHER -> "none"

\* a handler that names only the errors call_llm documents
CaughtByBatch_HttpOnly(exc) ==
    exc \in {"HTTPError", "TimeoutException", "ValueError"}

\* "except Exception": every class above derives from Exception
CaughtByBatch(exc) ==
    exc \in {"HTTPError", "TimeoutException", "ValueError",
             "AttributeError", "TypeError"}

Repeat(x, n) == [i \in 1..n |-> x]

\* json.loads gives true as the bool True, and bool is a subclass of int
\* with True == 1: one hour, ten tenths
JsonNumber(tenths) == [type |-> "number", value |-> tenths]

JsonTrue == [type |-> "boolean", value |-> 10]

JsonString == [type |-> "string", value |-> 0]

\* isinstance(h, (int, float))
IsIntOrFloat(h) == h.type \in {"number", "boolean"}

\* float(h) if isinstance(h, (int, float)) and h > 0 else 16.0
ValidatedHour(h) ==
    IF IsIntOrFloat(h) /\ h.value > 0 THEN h.value ELSE FALLBACK_HOURS

\* the value _llm_estimate_batch returns, or the exception it lets through
_llm_estimate_batch(items, outcome) ==
    LET exc == RaisedInside(outcome)
        hours_list == outcome.hours
    IN  IF exc # "none"
        THEN IF CaughtByBatch(exc)
             THEN [raised |-> "none",
                   hours |-> Repeat(FALLBACK_HOURS, Len(items))]
             ELSE [raised |-> exc, hours |-> << >>]
        ELSE IF Len(hours_list) = Len(items)
        THEN [raised |-> "none",
              hours |-> [i \in 1..Len(hours_list) |->
                            ValidatedHour(hours_list[i])]]
        ELSE [raised |-> "none", hours |-> Repeat(FALLBACK_HOURS, Len(items))]

\* the fill-in of one subfeature; acc holds the subfeatures filled so far,
\* feat["total_hours"] and llm_idx
FillSubfeature(sf, estimates, acc) ==
    LET effort == IF acc.llm_idx < Len(estimates)
                  THEN FromTenths(Buffered(estimates[acc.llm_idx + 1], 1))
                  ELSE FromTenths(Buffered(FALLBACK_HOURS, 1))
    IN  IF sf._pending_llm
        THEN [subfeatures |-> Append(acc.subfeatures,
                 [sf EXCEPT !._pending_llm = FALSE, !.effort = effort]),
              total_hours |-> FloatRound1(FloatAdd(acc.total_hours, effort)),
              llm_idx |-> acc.llm_idx + 1]
        ELSE [acc EXCEPT !.subfeatures = Append(@, sf)]

\* 'for sf in feat["subfeatures"]'
RECURSIVE FillSubfeatures(_, _, _)
FillSubfeatures(subs, estimates, acc) ==
    IF subs = << >> THEN acc
    ELSE FillSubfeatures(Tail(subs), estimates,
                         FillSubfeature(Head(subs), estimates, acc))

RECURSIVE FillFeatures(_, _, _)
FillFeatures(feats, estimates, llm_idx) ==
    IF feats = << >> THEN << >>
    ELSE
      LET feat == Head(feats)
          acc == FillSubfeatures(feat.subfeatures, estimates,
                   [subfeatures |-> << >>, total_hours |-> feat.total_hours,
                    llm_idx |-> llm_idx])
      IN  << [feat EXCEPT !.subfeatures = acc.subfeatures,
                          !.total_hours = acc.total_hours] >>
          \o FillFeatures(Tail(feats), estimates, acc.llm_idx)

\* sum(f["total_hours"] for f in estimated_features)
SumTotalHours(feats) ==
    FloatSum([i \in 1..Len(feats) |-> feats[i].total_hours], FloatZero)

\* hours per complexity label, labels in order of first appearance
RECURSIVE GenerateBreakdown(_, _)
GenerateBreakdown(feats, breakdown) ==
    IF feats = << >> THEN breakdown
    ELSE
      LET c == Head(feats).complexity
          h == Head(feats).total_hours
          known == \E i \in 1..Len(breakdown) : breakdown[i].complexity = c
      IN  GenerateBreakdown(Tail(feats),
            IF known
            THEN [i \in 1..Len(breakdown) |->
                    IF breakdown[i].complexity = c
                    THEN [breakdown[i] EXCEPT !.hours = FloatAdd(@, h)]
                    ELSE breakdown[i]]
            ELSE Append(breakdown, [complexity |-> c, hours |-> h]))

_generate_breakdown(feats) ==
    LET breakdown == GenerateBreakdown(feats, << >>)
    IN  [i \in 1..Len(breakdown) |->
            [breakdown[i] EXCEPT !.hours = FloatRound1(@)]]

\* the dict execute returns for the features it estimated
ExecuteResult(feats) ==
    LET total_hours == SumTotalHours(feats)
        min_hours == FloatMul(total_hours, FloatFromRatio(85, 100))
        max_hours == FloatMul(total_hours, FloatFromRatio(115, 100))
    IN  [total_hours |-> FloatRound1(total_hours),
         min_hours |-> FloatRound1(min_hours),
         max_hours |-> FloatRound1(max_hours),
         features |-> feats,
         breakdown |-> _generate_breakdown(feats)]

(***************************************************************************)
(* ConfidenceEngine.  calibration_engine is None or the engine; an engine  *)
(* object is always true in "if not calibration_engine".                   *)
(***************************************************************************)
\* sum(1 for f in features if f.get("was_calibrated", False)) / len(features)
_calculate_coverage_score(feats) ==
    IF feats = << >> THEN FloatZero
    ELSE FloatFromRatio(
             Cardinality({ i \in 1..Len(feats) : feats[i].was_calibrated }),
             Len(feats))

\* strong_calibration_count: the calibrated features whose own name finds
\* an entry with sample_size >= 3
StrongCount(feats, d) ==
    Cardinality({ i \in 1..Len(feats) :
        /\ feats[i].was_calibrated
        /\ LET calibration_info == get_calibration_info(d, feats[i].name)
           IN  ~calibration_info.is_none
               /\ calibration_info.sample_size >= 3 })

_calculate_strength_score(feats, has_engine, d) ==
    IF feats = << >> THEN FloatZero
    ELSE IF ~has_engine THEN FloatFromRatio(1, 2)
    ELSE FloatFromRatio(StrongCount(feats, d), Len(feats))

\* the score returned without the cap
Capped_NoCap(confidence) == confidence

\* min(confidence, 95.0)
Capped(confidence) ==
    IF FloatLess(FloatFromRatio(95, 1), confidence)
    THEN FloatFromRatio(95, 1) ELSE confidence

\* the two weights exchanged
WeightedScore_SwappedWeights(coverage_score, strength_score) ==
    FloatMul(FloatAdd(FloatMul(coverage_score, FloatFromRatio(4, 10)),
                      FloatMul(strength_score, FloatFromRatio(6, 10))),
             FloatFromRatio(100, 1))

\* (coverage_score * 0.6 + strength_score * 0.4) * 100
WeightedScore(coverage_score, strength_score) ==
    FloatMul(FloatAdd(FloatMul(coverage_score, FloatFromRatio(6, 10)),
                      FloatMul(strength_score, FloatFromRatio(4, 10))),
             FloatFromRatio(100, 1))

calculate_confidence(feats, domain_confidence, has_engine, d) ==
    IF feats = << >> THEN FloatZero
    ELSE Capped(WeightedScore(_calculate_coverage_score(feats),
                              _calculate_strength_score(feats, has_engine, d)))

(***************************************************************************)
(* PlanningEngine.                                                         *)
(***************************************************************************)
\* ratios whose sum is 1.10
PHASE_RATIOS_Drifted ==
    [frontend |-> 40, backend |-> 35, qa |-> 15, pm_ba |-> 20]

\* the ratios, in hundredths
PHASE_RATIOS ==
    [frontend |-> 40, backend |-> 35, qa |-> 15, pm_ba |-> 10]

\* round(total_hours * PHASE_RATIOS[phase], 1)
PhaseHours(total_hours, ratio) ==
    FloatRound1(FloatMul(total_hours, FloatFromRatio(ratio, 100)))

_compute_phase_breakdown(total_hours) ==
    [frontend |-> PhaseHours(total_hours, PHASE_RATIOS.frontend),
     backend |-> PhaseHours(total_hours, PHASE_RATIOS.backend),
     qa |-> PhaseHours(total_hours, PHASE_RATIOS.qa),
     pm_ba |-> PhaseHours(total_hours, PHASE_RATIOS.pm_ba)]

\* 40
HOURS_PER_WEEK == 40

\* "if timeline_weeks <= 0: timeline_weeks = 1", in tenths of a week
ClampedWeeks(timeline_weeks) ==
    IF timeline_weeks <= 0 THEN 10 ELSE timeline_weeks

\* ceil(a / b) for a >= 0 and b > 0
CeilDiv(a, b) == (a + b - 1) \div b

\* a count that drops the started engineer
TotalEngineersNeeded_Floor(total_hours, timeline_weeks) ==
    LET needed == total_hours \div (HOURS_PER_WEEK * ClampedWeeks(timeline_weeks))
    IN  IF needed < 2 THEN 2 ELSE needed

\* max(2, ceil(total_hours / (timeline_weeks * 40))): tenths of an hour
\* over tenths of a week, so hours over 40 * timeline_weeks hours
TotalEngineersNeeded(total_hours, timeline_weeks) ==
    LET needed == CeilDiv(total_hours,
                          HOURS_PER_WEEK * ClampedWeeks(timeline_weeks))
    IN  IF needed < 2 THEN 2 ELSE needed

_compute_team_recommendation(total_hours, timeline_weeks) ==
    LET total_engineers_needed ==
            TotalEngineersNeeded(total_hours, timeline_weeks)
        half == CeilDiv(total_engineers_needed, 2)
        third == total_engineers_needed \div 3
    IN  [frontend |-> IF half < 1 THEN 1 ELSE half,
         backend |-> IF half < 1 THEN 1 ELSE half,
         qa |-> IF third < 1 THEN 1 ELSE third,
         pm |-> 1]

(***************************************************************************)
(* Runs of the pipeline: feature structuring, EstimationAgent.execute on   *)
(* the store the pipeline loaded, then the confidence score.               *)
(***************************************************************************)
\* what the loader may hand to ProjectPipeline.__init__
StartupEntries ==
    { [key |-> <<"a","b">>, avg_hours |-> 1000, sample_size |-> 2],
      [key |-> <<"a","b">>, avg_hours |-> 500, sample_size |-> 4],
      [key |-> <<"a","b">>, avg_hours |-> 500, sample_size |-> 1],
      [key |-> <<"b">>, avg_hours |-> 30, sample_size |-> 3],
      [key |-> <<"c">>, avg_hours |-> 115, sample_size |-> 3] }

StartupData ==
    { a \in SeqsUpTo(StartupEntries, MaxStore) :
        /\ DistinctKeys(a)
        /\ \A i \in 1..(Len(a) - 1) : Len(a[i].key) >= Len(a[i + 1].key)
        /\ \A i \in 1..(Len(a) - 1) : a[i].key # <<"c">> }

\* the raw features the language model may answer with
RawFeatNames == { << >>, <<" ">>, <<"a","b">>, <<" ","c">> }

RawSubfeatures ==
    { [kind |-> "dict", name |-> << >>],
      [kind |-> "dict", name |-> <<"a","b">>],
      [kind |-> "str", name |-> <<" ","c">>],
      [kind |-> "other", name |-> << >>] }

RawComplexities == { "Medium", "extreme" }

NonDictFeature ==
    [is_dict |-> FALSE, name |-> << >>, complexity |-> "Medium",
     subfeatures |-> << >>]

RawFeatures ==
    [is_dict : {TRUE}, name : RawFeatNames, complexity : RawComplexities,
     subfeatures : SeqsUpTo(RawSubfeatures, MaxSubs)]
        \cup { NonDictFeature }

\* the hours the external service may answer for n items: one number per
\* item, one too few, one too many, or one entry that is no positive number
HourOf(i) == JsonNumber(100 + 10 * i)

IrregularHours == { JsonNumber(0), JsonTrue, JsonString }

HoursLists(n) ==
    { [i \in 1..m |-> HourOf(i)] : m \in {k \in {n - 1, n, n + 1} : k >= 0} }
        \cup { [i \in 1..n |-> IF i = k THEN x ELSE HourOf(i)] :
                 k \in 1..n, x \in IrregularHours }

LlmOutcomes(n) ==
    [kind : FailureKinds, hours : {<< >>}]
        \cup [kind : {"hours"}, hours : HoursLists(n)]

\* domain_result["confidence"], in hundredths
DomainConfidences == { 50, 90 }

\* how "loader.load_all_calibrations()" and the load that follows it may
\* end: both return, the loader raises, or the load raises in one of its
\* iterations
LoadOutcomes == { "loaded", "loader_raised", "load_raised" }

\* _calibration_data when __init__ returns.  The except clause only logs:
\* what the iterations before the failing one have stored stays
ConstructedStore(aggregated_data, outcome, failing) ==
    IF outcome = "loader_raised" THEN << >>
    ELSE IF outcome = "load_raised"
    THEN load_from_aggregated_data(<< >>,
                                   SubSeq(aggregated_data, 1, failing - 1))
    ELSE load_from_aggregated_data(<< >>, aggregated_data)

Init ==
    /\ \E a \in StartupData, outcome \in LoadOutcomes, failing \in 1..MaxStore :
          /\ outcome = "load_raised" => failing <= Len(a)
          /\ outcome # "load_raised" => failing = 1
          /\ store = ConstructedStore(a, outcome, failing)
          /\ load_outcome = outcome
    /\ query = None
    /\ matched = None
    /\ info = NoInfo
    /\ InitExec
    /\ InitPlanning
    /\ InitTeam
    /\ store_call = NoStoreCall
    /\ InitRuns
    /\ InitLater

\* one iteration of the loop of _normalize_features over the answer of the
\* language model: the feature is appended, or skipped
NormalizeFeature(feature) ==
    /\ pc = "idle"
    /\ raw_seen < MaxFeatures
    /\ raw_feature' = feature
    /\ raw_seen' = raw_seen + 1
    /\ features' = features \o NormalizeOne(feature)
    /\ UNCHANGED << store, matchVars, pc, fi, estimated_features,
                    unmatched_items, llmVars, result, confVars, planVars, otherVars >>

\* execute is called with the structured features: the empty list returns
\* at once
Execute ==
    /\ pc = "idle"
    /\ raw_feature' = NoRawFeature
    /\ raw_seen' = 0
    /\ fi' = 1
    /\ estimated_features' = << >>
    /\ unmatched_items' = << >>
    /\ IF features = << >>
       THEN /\ pc' = "done"
            /\ result' = NoResult
       ELSE /\ pc' = "scan"
            /\ result' = NoResult
    /\ UNCHANGED << store, matchVars, features, llmVars, confVars, planVars, otherVars >>

\* an estimate requested inside the loop, once per feature with deferred items
ScanFeature_CallPerFeature ==
    /\ pc = "scan"
    /\ fi <= Len(features)
    /\ LET r == ScanFeatureBody(store, features[fi])
       IN  /\ estimated_features' = Append(estimated_features, r.estimated)
           /\ unmatched_items' = unmatched_items \o r.unmatched
           /\ llm_calls' = IF r.unmatched # << >>
                           THEN llm_calls + 1 ELSE llm_calls
    /\ fi' = fi + 1
    /\ UNCHANGED << store, matchVars, structVars, pc, features, llm_request,
                    llm_outcome, llm_response, llm_estimates, result,
                    confVars, planVars, otherVars >>

\* one iteration of "for feature in features"
ScanFeature ==
    /\ pc = "scan"
    /\ fi <= Len(features)
    /\ LET r == ScanFeatureBody(store, features[fi])
       IN  /\ estimated_features' = Append(estimated_features, r.estimated)
           /\ unmatched_items' = unmatched_items \o r.unmatched
    /\ fi' = fi + 1
    /\ UNCHANGED << store, matchVars, structVars, pc, features, llmVars,
                    result, confVars, planVars, otherVars >>

\* "if unmatched_items:" holds: the batch is handed to _llm_estimate_batch
CallLlmEstimateBatch ==
    /\ pc = "scan"
    /\ fi > Len(features)
    /\ unmatched_items # << >>
    /\ pc' = "await_llm"
    /\ llm_calls' = llm_calls + 1
    /\ llm_request' = unmatched_items
    /\ UNCHANGED << store, matchVars, structVars, features, fi,
                    estimated_features, unmatched_items, llm_outcome,
                    llm_response, llm_estimates, result, confVars, planVars, otherVars >>

\* nothing was deferred: execute goes straight to the totals
FinishWithoutLlm ==
    /\ pc = "scan"
    /\ fi > Len(features)
    /\ unmatched_items = << >>
    /\ pc' = "done"
    /\ result' = ExecuteResult(estimated_features)
    /\ UNCHANGED << store, matchVars, structVars, features, fi,
                    estimated_features, unmatched_items, llmVars, confVars,
                    planVars, otherVars >>

\* the external call ends; execute fills the estimates in and returns
ReceiveLlmEstimates(outcome) ==
    /\ pc = "await_llm"
    /\ llm_outcome' = outcome.kind
    /\ llm_response' = outcome.hours
    /\ LET batch == _llm_estimate_batch(llm_request, outcome)
           filled == FillFeatures(estimated_features, batch.hours, 0)
       IN  IF batch.raised # "none"
           THEN /\ pc' = "raised"
                /\ UNCHANGED << estimated_features, result, llm_estimates >>
           ELSE /\ pc' = "done"
                /\ llm_estimates' = batch.hours
                /\ estimated_features' = filled
                /\ result' = ExecuteResult(filled)
    /\ UNCHANGED << store, matchVars, structVars, features, fi,
                    unmatched_items, llm_calls, llm_request, confVars,
                    planVars, otherVars >>

\* stage 5 of the pipeline, or any other caller of calculate_confidence on
\* the estimated features: with the engine or without one
CalculateConfidence(domain_confidence, has_engine) ==
    /\ pc = "done"
    /\ pc' = "scored"
    /\ confidence_args' = [domain_confidence |-> domain_confidence,
                           has_engine |-> has_engine]
    /\ confidence_score' = calculate_confidence(result.features,
                               domain_confidence, has_engine, store)
    /\ UNCHANGED << store, matchVars, structVars, features, fi,
                    estimated_features, unmatched_items, llmVars, result,
                    planVars, otherVars >>

Next ==
    \/ pc = "idle" /\ \E feature \in RawFeatures : NormalizeFeature(feature)
    \/ Execute
    \/ ScanFeature
    \/ CallLlmEstimateBatch
    \/ FinishWithoutLlm
    \/ pc = "await_llm" /\ \E outcome \in LlmOutcomes(Len(llm_request)) :
                                ReceiveLlmEstimates(outcome)
    \/ pc = "done" /\ \E dc \in DomainConfidences, e \in BOOLEAN :
                          CalculateConfidence(dc, e)

Spec == Init /\ [][Next]_vars

(***************************************************************************)
(* The phase split on its own: a total, then its breakdown.                *)
(***************************************************************************)
\* total_hours handed to the planning stage, written with two decimals
PlanningTotals == { FloatFromRatio(n, 100) : n \in 0..MaxPlanTotal }

InitPlanSpec ==
    /\ store = << >>
    /\ query = None
    /\ matched = None
    /\ info = NoInfo
    /\ InitExec
    /\ InitOther
    /\ plan_total \in PlanningTotals
    /\ plan_pc = "idle"
    /\ phase_breakdown = NoPhases

\* _compute_phase_breakdown is called with the total
ComputePhaseBreakdown ==
    /\ plan_pc = "idle"
    /\ plan_pc' = "planned"
    /\ phase_breakdown' = _compute_phase_breakdown(plan_total)
    /\ UNCHANGED << store, matchVars, execVars, plan_total, otherVars >>

NextPlanning == ComputePhaseBreakdown

SpecPlanning == InitPlanSpec /\ [][NextPlanning]_vars

(***************************************************************************)
(* The team recommendation on its own: a total and a timeline, then the    *)
(* recommendation.                                                         *)
(***************************************************************************)
\* total_hours, every half hour up to the bound, in tenths
TeamTotals == { 5 * k : k \in 0..MaxTeamTotal }

\* timeline_weeks as the proposal stage rounds it, in tenths: negative,
\* zero, a fraction of a week and whole weeks
TeamWeeks == { -10, 0, 5, 10, 15, 40 }

InitTeamSpec ==
    /\ store = << >>
    /\ query = None
    /\ matched = None
    /\ info = NoInfo
    /\ InitExec
    /\ InitPlanning
    /\ store_call = NoStoreCall
    /\ load_outcome = "loaded"
    /\ InitRuns
    /\ InitLater
    /\ team_total \in TeamTotals
    /\ team_weeks \in TeamWeeks
    /\ team_pc = "idle"
    /\ team_recommendation = NoTeam

\* _compute_team_recommendation is called with the total and the timeline
ComputeTeamRecommendation ==
    /\ team_pc = "idle"
    /\ team_pc' = "planned"
    /\ team_recommendation'
          = _compute_team_recommendation(team_total, team_weeks)
    /\ UNCHANGED << store, matchVars, execVars, planVars, team_total,
                    team_weeks, store_call, load_outcome, runVars, laterVars >>

NextTeam == ComputeTeamRecommendation

SpecTeam == InitTeamSpec /\ [][NextTeam]_vars

(***************************************************************************)
(* The store on its own: loads and additions in any order.                 *)
(***************************************************************************)
\* aggregated data as the loader hands it over: normalized keys, an
\* average in tenths, at least one sample
StoreLoadEntries ==
    [key : { <<"a","b">>, <<"b","1">> }, avg_hours : AvgValues,
     sample_size : 1..2]

StoreLoads ==
    { a \in SeqsUpTo(StoreLoadEntries, MaxLoad) : DistinctKeys(a) }

\* names given to add_calibration_data: a key, a name with upper case and
\* a space, and a name without any letter or digit
StoreAddNames == { <<"a","b">>, <<"A"," ","b">>, <<"!">> }

\* actual hours given to add_calibration_data, in tenths
StoreAddHours == { 300 }

InitStoreSpec ==
    /\ store = << >>
    /\ query = None
    /\ matched = None
    /\ info = NoInfo
    /\ InitExec
    /\ InitPlanning
    /\ InitTeam
    /\ store_call = NoStoreCall
    /\ load_outcome = "loaded"
    /\ InitRuns
    /\ InitLater

\* the samples of every entry stay within the bound
SamplesBounded(d) == \A i \in 1..Len(d) : d[i].sample_size <= MaxSample

StoreLoad(aggregated_data) ==
    /\ Len(load_from_aggregated_data(store, aggregated_data)) <= MaxStore
    /\ store' = load_from_aggregated_data(store, aggregated_data)
    /\ store_call' = [NoStoreCall EXCEPT !.op = "load",
                         !.aggregated_data = aggregated_data,
                         !.before = store]
    /\ UNCHANGED << matchVars, execVars, planVars, teamVars, load_outcome,
                    runVars, laterVars >>

StoreAdd(feature_name, actual_hours) ==
    /\ Len(add_calibration_data(store, feature_name, actual_hours))
          <= MaxStore
    /\ SamplesBounded(add_calibration_data(store, feature_name, actual_hours))
    /\ store' = add_calibration_data(store, feature_name, actual_hours)
    /\ store_call' = [NoStoreCall EXCEPT !.op = "add",
                         !.feature_name = feature_name,
                         !.actual_hours = actual_hours,
                         !.before = store]
    /\ UNCHANGED << matchVars, execVars, planVars, teamVars, load_outcome,
                    runVars, laterVars >>

NextStore ==
    \/ \E a \in StoreLoads : StoreLoad(a)
    \/ \E n \in StoreAddNames, h \in StoreAddHours : StoreAdd(n, h)

SpecStore == InitStoreSpec /\ [][NextStore]_vars

(***************************************************************************)
(* Requests handled at the same time on one pipeline.  A coroutine runs    *)
(* without interruption between two awaits: execute scans all features     *)
(* before its only await, the size-estimate call, and calculate_confidence *)
(* runs in one piece after it.                                             *)
(***************************************************************************)
\* "for feature in features" of execute, up to the await
ScanJoin(first, rest) ==
    [estimated |-> << first.estimated >> \o rest.estimated,
     unmatched |-> first.unmatched \o rest.unmatched]

RECURSIVE ScanFeatures(_, _)
ScanFeatures(d, feats) ==
    IF feats = << >> THEN [estimated |-> << >>, unmatched |-> << >>]
    ELSE ScanJoin(ScanFeatureBody(d, Head(feats)),
                  ScanFeatures(d, Tail(feats)))

\* the structured features of a request
RunFeatureLists ==
    { << >>,
      << [name |-> <<"a","b">>, complexity |-> "Medium",
          subfeatures |-> << <<"a","b">> >>] >>,
      << [name |-> <<"a","b">>, complexity |-> "Medium",
          subfeatures |-> << <<"c">> >>] >>,
      << [name |-> <<"a","b">>, complexity |-> "Medium",
          subfeatures |-> << <<"a","b">>, <<"c">> >>] >> }

\* the size-estimate call times out or answers one number per item
RunOutcomes(n) ==
    { [kind |-> "timeout", hours |-> << >>],
      [kind |-> "hours", hours |-> [i \in 1..n |-> HourOf(i)]] }

InitRunsSpec ==
    /\ \E a \in StartupData : store = load_from_aggregated_data(<< >>, a)
    /\ query = None
    /\ matched = None
    /\ info = NoInfo
    /\ InitExec
    /\ InitPlanning
    /\ InitOther

\* execute from its start to the await of the size-estimate call, or to
\* its return when nothing is deferred
Scanned(r, feats, scan) ==
    /\ run_features' = [run_features EXCEPT ![r] = feats]
    /\ run_estimated' = [run_estimated EXCEPT ![r] = scan.estimated]
    /\ run_unmatched' = [run_unmatched EXCEPT ![r] = scan.unmatched]
    /\ IF feats = << >>
       THEN /\ run_pc' = [run_pc EXCEPT ![r] = "estimated"]
            /\ run_result' = [run_result EXCEPT ![r] = NoResult]
       ELSE IF scan.unmatched = << >>
       THEN /\ run_pc' = [run_pc EXCEPT ![r] = "estimated"]
            /\ run_result' = [run_result EXCEPT
                                 ![r] = ExecuteResult(scan.estimated)]
       ELSE /\ run_pc' = [run_pc EXCEPT ![r] = "await_llm"]
            /\ UNCHANGED run_result

RunExecute(r, feats) ==
    /\ run_pc[r] = "idle"
    /\ Scanned(r, feats, ScanFeatures(store, feats))
    /\ UNCHANGED << store, matchVars, execVars, planVars, teamVars,
                    store_call, load_outcome, run_confidence, laterVars >>

\* a resumption that files the answered hours in the store
RunResume_Learning(r, outcome) ==
    /\ run_pc[r] = "await_llm"
    /\ run_pc' = [run_pc EXCEPT ![r] = "estimated"]
    /\ run_result' = [run_result EXCEPT ![r] =
          ExecuteResult(FillFeatures(run_estimated[r],
              _llm_estimate_batch(run_unmatched[r], outcome).hours, 1))]
    /\ store' = add_calibration_data(store, run_unmatched[r][1].subfeature,
                     _llm_estimate_batch(run_unmatched[r], outcome).hours[1])
    /\ UNCHANGED << matchVars, execVars, planVars, teamVars,
                    store_call, load_outcome, run_features, run_estimated,
                    run_unmatched, run_confidence, laterVars >>

\* execute resumes with the answer of the size-estimate call and returns
RunResume(r, outcome) ==
    /\ run_pc[r] = "await_llm"
    /\ run_pc' = [run_pc EXCEPT ![r] = "estimated"]
    /\ run_result' = [run_result EXCEPT ![r] =
          ExecuteResult(FillFeatures(run_estimated[r],
              _llm_estimate_batch(run_unmatched[r], outcome).hours, 1))]
    /\ UNCHANGED << store, matchVars, execVars, planVars, teamVars,
                    store_call, load_outcome, run_features, run_estimated,
                    run_unmatched, run_confidence, laterVars >>

\* stage 5: calculate_confidence with the engine of the pipeline
RunConfidence(r) ==
    /\ run_pc[r] = "estimated"
    /\ run_pc' = [run_pc EXCEPT ![r] = "scored"]
    /\ run_confidence' = [run_confidence EXCEPT ![r] =
          calculate_confidence(run_result[r].features, 50, TRUE, store)]
    /\ UNCHANGED << store, matchVars, execVars, planVars, teamVars,
                    store_call, load_outcome, run_features, run_estimated,
                    run_unmatched, run_result, laterVars >>

NextRuns ==
    \/ \E r \in Runs, feats \in RunFeatureLists : RunExecute(r, feats)
    \/ \E r \in Runs :
          run_pc[r] = "await_llm"
             /\ \E outcome \in RunOutcomes(Len(run_unmatched[r])) :
                   RunResume(r, outcome)
    \/ \E r \in Runs : RunConfidence(r)

SpecRuns == InitRunsSpec /\ [][NextRuns]_vars

(***************************************************************************)
(* One run of the pipeline graph: the compiled graph runs the node of the  *)
(* current edge, a node that raises ends the run.                          *)
(***************************************************************************)
\* edges that run the proposal before the tech stack
Successor_ProposalFirst(node) ==
    CASE node = "__start__" -> "domain_detection"
      [] node = "domain_detection" -> "template_expansion"
      [] node = "template_expansion" -> "feature_structuring"
      [] node = "feature_structuring" -> "estimation"
      [] node = "estimation" -> "confidence_calculation"
      [] node = "confidence_calculation" -> "proposal"
      [] node = "proposal" -> "tech_stack"
      [] node = "tech_stack" -> "planning"
      [] node = "planning" -> "build_result"
      [] node = "build_result" -> "__end__"

\* graph.add_edge(source, target)
Successor(node) ==
    CASE node = "__start__" -> "domain_detection"
      [] node = "domain_detection" -> "template_expansion"
      [] node = "template_expansion" -> "feature_structuring"
      [] node = "feature_structuring" -> "estimation"
      [] node = "estimation" -> "confidence_calculation"
      [] node = "confidence_calculation" -> "tech_stack"
      [] node = "tech_stack" -> "proposal"
      [] node = "proposal" -> "planning"
      [] node = "planning" -> "build_result"
      [] node = "build_result" -> "__end__"

\* an event of a node, with the fields the nodes put in
Event(stage, st) ==
    [stage |-> stage, domain |-> st.detected_domain,
     count |-> IF stage = "template_expansion_done"
               THEN st.modules_selected ELSE st.feature_count,
     total_hours |-> st.total_hours, result |-> st.final_result]

\* _fire_progress appended to the events so far
_fire_progress(events, st, stage) ==
    IF st.has_callback THEN Append(events, Event(stage, st)) ELSE events

\* what the agents may answer
GraphDomains == { "ecommerce", "unknown" }

GraphTotals == { 0, 2200 }

\* the node ran to its end: the edge is followed
NodeDone(node, st, events) ==
    /\ graph_node' = node
    /\ graph_ran' = Append(graph_ran, node)
    /\ graph_state' = st
    /\ graph_events' = events
    /\ UNCHANGED << baseVars, restVars >>

\* the agent of the node raised after the events fired so far
NodeRaised(node, events) ==
    /\ graph_node' = "raised"
    /\ graph_ran' = Append(graph_ran, node)
    /\ graph_events' = events
    /\ UNCHANGED << baseVars, restVars, graph_state >>

InitGraphSpec ==
    /\ InitBase
    /\ InitRest
    /\ graph_node = "__start__"
    /\ graph_ran = << >>
    /\ \E cb \in BOOLEAN :
          graph_state = [NoGraphState EXCEPT !.has_callback = cb]
    /\ graph_events = << >>

domain_detection_node(outcome) ==
    /\ Successor(graph_node) = "domain_detection"
    /\ LET started == _fire_progress(graph_events, graph_state,
                                     "domain_detection_started")
           st == [graph_state EXCEPT !.detected_domain = outcome]
       IN  IF outcome = "raises"
           THEN NodeRaised("domain_detection", started)
           ELSE NodeDone("domain_detection", st,
                         _fire_progress(started, st, "domain_detection_done"))

template_expansion_node(modules_selected) ==
    /\ Successor(graph_node) = "template_expansion"
    /\ LET started == _fire_progress(graph_events, graph_state,
                                     "template_expansion_started")
           st == [graph_state EXCEPT !.modules_selected = modules_selected]
       IN  NodeDone("template_expansion", st,
                    _fire_progress(started, st, "template_expansion_done"))

feature_structuring_node(raises, feature_count) ==
    /\ Successor(graph_node) = "feature_structuring"
    /\ LET started == _fire_progress(graph_events, graph_state,
                                     "feature_structuring_started")
           st == [graph_state EXCEPT !.feature_count = feature_count]
       IN  IF raises
           THEN NodeRaised("feature_structuring", started)
           ELSE NodeDone("feature_structuring", st,
                    _fire_progress(started, st, "feature_structuring_done"))

estimation_node(total_hours) ==
    /\ Successor(graph_node) = "estimation"
    /\ LET started == _fire_progress(graph_events, graph_state,
                                     "estimation_started")
           st == [graph_state EXCEPT !.total_hours = total_hours]
       IN  NodeDone("estimation", st,
                    _fire_progress(started, st, "estimation_done"))

confidence_calculation_node ==
    /\ Successor(graph_node) = "confidence_calculation"
    /\ NodeDone("confidence_calculation", graph_state, graph_events)

tech_stack_node ==
    /\ Successor(graph_node) = "tech_stack"
    /\ NodeDone("tech_stack", graph_state, graph_events)

proposal_node(raises) ==
    /\ Successor(graph_node) = "proposal"
    /\ LET started == _fire_progress(graph_events, graph_state,
                                     "proposal_started")
       IN  IF raises THEN NodeRaised("proposal", started)
           ELSE NodeDone("proposal", graph_state, started)

planning_node ==
    /\ Successor(graph_node) = "planning"
    /\ NodeDone("planning", graph_state, graph_events)

build_result_node ==
    /\ Successor(graph_node) = "build_result"
    /\ LET st == [graph_state EXCEPT !.final_result =
                     [built |-> TRUE, domain |-> graph_state.detected_domain,
                      feature_count |-> graph_state.feature_count,
                      total_hours |-> graph_state.total_hours]]
       IN  NodeDone("build_result", st,
                    _fire_progress(graph_events, st, "completed"))

\* the last edge leads to END
GraphEnd ==
    /\ graph_node = "build_result"
    /\ graph_node' = Successor(graph_node)
    /\ UNCHANGED << baseVars, restVars, graph_ran, graph_state, graph_events >>

\* the nodes that run are those with an outgoing edge from the current one
Running == graph_node \in { "__start__", "domain_detection",
               "template_expansion", "feature_structuring", "estimation",
               "confidence_calculation", "tech_stack", "proposal",
               "planning" }

NextGraph ==
    \/ Running /\ \E outcome \in GraphDomains \cup {"raises"} :
                     domain_detection_node(outcome)
    \/ Running /\ \E m \in 0..MaxModules : template_expansion_node(m)
    \/ Running /\ \E raises \in BOOLEAN, n \in 0..MaxFeatures :
                     feature_structuring_node(raises, n)
    \/ Running /\ \E t \in GraphTotals : estimation_node(t)
    \/ Running /\ confidence_calculation_node
    \/ Running /\ tech_stack_node
    \/ Running /\ \E raises \in BOOLEAN : proposal_node(raises)
    \/ Running /\ planning_node
    \/ Running /\ build_result_node
    \/ GraphEnd

SpecGraph == InitGraphSpec /\ [][NextGraph]_vars

(***************************************************************************)
(* BaseAgent.call_llm and LLMClient.complete: the retry loop around the    *)
(* HTTP request.  The two methods have the same loop.                      *)
(***************************************************************************)
\* JSON values, as response.json() returns them
JNull == [kind |-> "null"]

JStr(s) == [kind |-> "str", text |-> s]

JArr(items) == [kind |-> "array", items |-> items]

JObj(fields) == [kind |-> "object", fields |-> fields]

\* the outcome of evaluating an expression: a value, or the exception raised
Value(v) == [exc |-> "", value |-> v]

Raises(e) == [exc |-> e, value |-> JNull]

\* key in v
Contains(v, key) ==
    IF v.kind = "null" THEN Raises("TypeError")
    ELSE IF v.kind = "object" THEN Value(key \in DOMAIN v.fields)
    ELSE Value(FALSE)

\* len(v)
PyLen(v) ==
    IF v.kind = "null" THEN Raises("TypeError")
    ELSE IF v.kind = "object" THEN Value(Cardinality(DOMAIN v.fields))
    ELSE IF v.kind = "array" THEN Value(Len(v.items))
    ELSE Value(Len(v.text))

\* v[key], key a string
GetKey(v, key) ==
    IF v.kind = "object"
    THEN (IF key \in DOMAIN v.fields THEN Value(v.fields[key])
          ELSE Raises("KeyError"))
    ELSE Raises("TypeError")

\* v[0]
GetFirst(v) ==
    IF v.kind = "array"
    THEN (IF Len(v.items) > 0 THEN Value(v.items[1])
          ELSE Raises("IndexError"))
    ELSE IF v.kind = "object" THEN Raises("KeyError")
    ELSE IF v.kind = "str"
    THEN (IF Len(v.text) > 0 THEN Value(JStr(<< v.text[1] >>))
          ELSE Raises("IndexError"))
    ELSE Raises("TypeError")

\* the bodies a 2xx response may carry; "nonjson" is a body that json()
\* cannot decode
OkBody ==
    JObj([choices |->
        JArr(<< JObj([message |-> JObj([content |-> JStr(<< "h", "i" >>)])])
             >>)])

Bodies ==
    { OkBody,
      [kind |-> "nonjson"],
      JNull,
      JArr(<< >>),
      JObj([error |-> JStr(<< "e" >>)]),
      JObj([choices |-> JArr(<< >>)]),
      JObj([choices |-> JNull]),
      JObj([choices |-> JArr(<< JNull >>)]),
      JObj([choices |-> JArr(<< JObj([finish_reason |-> JNull]) >>)]),
      JObj([choices |-> JArr(<< JObj([message |-> JNull]) >>)]),
      JObj([choices |-> JArr(<< JObj([message |-> JObj([role |-> JNull])])
                             >>)]) }

\* data["choices"][0]["message"]["content"]
ContentOf(data) ==
    LET choices == GetKey(data, "choices")
        first == GetFirst(choices.value)
        message == GetKey(first.value, "message")
    IN  IF choices.exc # "" THEN choices
        ELSE IF first.exc # "" THEN first
        ELSE IF message.exc # "" THEN message
        ELSE GetKey(message.value, "content")

\* the body of the "async with" block after raise_for_status: the content
\* returned, or the exception that leaves the block
ReadResponse(body) ==
    IF body.kind = "nonjson" THEN Raises("ValueError")
    ELSE LET has == Contains(body, "choices")
             n == PyLen(GetKey(body, "choices").value)
         IN  IF has.exc # "" THEN has
             ELSE IF ~has.value THEN Raises("ValueError")
             ELSE IF n.exc # "" THEN n
             ELSE IF n.value = 0 THEN Raises("ValueError")
             ELSE ContentOf(body)

\* what one HTTP attempt may produce: the post raises a transport error or a
\* timeout, raise_for_status raises, or a 2xx response arrives
HttpFailures == { "ConnectError", "TimeoutException", "HTTPStatusError" }

HttpOutcomes ==
    { [failure |-> f, body |-> JNull] : f \in HttpFailures }
    \cup { [failure |-> "", body |-> b] : b \in Bodies }

MaxRetriesValues == 0..MaxRetries

Entries == { "call_llm", "complete" }

\* the call starts: last_exception = None, the loop is entered
StartCall(entry, m) ==
    /\ call_pc = "idle"
    /\ max_retries' = m
    /\ call_entry' = entry
    /\ call_pc' = "loop"
    /\ attempt' = 0
    /\ last_exception' = NoException
    /\ http_log' = << >>
    /\ call_result' = NoCallResult
    /\ UNCHANGED callFrame

call_llm(m) == StartCall("call_llm", m)

complete(m) == StartCall("complete", m)

\* the except clauses of the loop, applied to the exception exc that left
\* the try block in the iteration "attempt"
Handled(exc, e) ==
    IF exc \in HttpFailures
    THEN (IF attempt < max_retries
          THEN [pc |-> "loop", raised |-> "", error |-> NoException]
          ELSE [pc |-> "raised", raised |-> exc, error |-> e])
    ELSE IF exc \in { "KeyError", "ValueError" }
    THEN [pc |-> "raised", raised |-> "ValueError", error |-> NoException]
    ELSE [pc |-> "raised", raised |-> exc, error |-> NoException]

\* one iteration of "for attempt in range(self.max_retries + 1)"
RetryIteration(entry, o) ==
    /\ call_pc = "loop"
    /\ call_entry = entry
    /\ attempt < max_retries + 1
    /\ http_log' = Append(http_log, o)
    /\ LET e == [type |-> o.failure, attempt |-> attempt + 1]
           read == ReadResponse(o.body)
           exc == IF o.failure # "" THEN o.failure ELSE read.exc
           h == Handled(exc, e)
       IN  IF exc = ""
           THEN /\ call_pc' = "returned"
                /\ call_result' = [raised |-> "", error |-> NoException,
                                   content |-> read.value.text]
                /\ UNCHANGED << attempt, last_exception >>
           ELSE /\ call_pc' = h.pc
                /\ call_result' = [raised |-> h.raised, error |-> h.error,
                                   content |-> ""]
                /\ last_exception' = IF o.failure # "" THEN e
                                     ELSE last_exception
                /\ attempt' = IF h.pc = "loop" THEN attempt + 1 ELSE attempt
    /\ UNCHANGED << callFrame, max_retries, call_entry >>

call_llm_attempt(o) == RetryIteration("call_llm", o)

complete_attempt(o) == RetryIteration("complete", o)

\* the caller has the value or the exception; the next call may start
CallOver ==
    /\ call_pc \in { "returned", "raised" }
    /\ call_pc' = "idle"
    /\ UNCHANGED << callFrame, max_retries, call_entry, attempt,
                    last_exception, http_log, call_result >>

InitCallSpec ==
    /\ InitBase
    /\ InitGraph
    /\ InitCall
    /\ InitCache
    /\ InitEmail
    /\ InitModify

NextCall ==
    \/ \E m \in MaxRetriesValues : call_llm(m)
    \/ \E m \in MaxRetriesValues : complete(m)
    \/ \E o \in HttpOutcomes : call_llm_attempt(o)
    \/ \E o \in HttpOutcomes : complete_attempt(o)
    \/ CallOver

SpecCall == InitCallSpec /\ [][NextCall]_vars

(***************************************************************************)
(* main.py: the estimation cache of /estimate.                             *)
(***************************************************************************)
_MAX_CACHE_SIZE == 100

\* a dict is the sequence of its items in insertion order
DictKeys(d) == { d[i].key : i \in DOMAIN d }

\* d.get(key)
DictGet(d, key) ==
    IF key \in DictKeys(d)
    THEN (CHOOSE i \in DOMAIN d : d[i].key = key)
    ELSE 0

\* d[key] = value: a present key keeps its place
DictSet(d, key, value) ==
    IF key \in DictKeys(d)
    THEN [i \in DOMAIN d |->
              IF d[i].key = key THEN [key |-> key, value |-> value] ELSE d[i]]
    ELSE Append(d, [key |-> key, value |-> value])

\* del d[key]
DictDel(d, key) == SelectSeq(d, LAMBDA item : item.key # key)

Oldest_Newest(d) == d[Len(d)].key

\* next(iter(d))
Oldest(d) == d[1].key

\* lines 433-438: the cache after the result of a request is stored
Cached(cache, res) ==
    LET request_id == res.request_id
        room == IF Len(cache) >= _MAX_CACHE_SIZE
                THEN DictDel(cache, Oldest(cache))
                ELSE cache
    IN  DictSet(room, request_id, res)

\* the cache after k requests served one after the other, k below the cap
CacheAfter(k) ==
    [i \in 1..k |-> [key |-> i, value |-> [request_id |-> i]]]

\* the requests served before the run starts
Served == { 0, _MAX_CACHE_SIZE - 3 }

\* the number of requests the run whose latest id is u started with
ServedBefore(u) ==
    IF u >= _MAX_CACHE_SIZE - 3 THEN _MAX_CACHE_SIZE - 3 ELSE 0

InitCacheSpec ==
    /\ InitBase
    /\ InitGraph
    /\ InitCall
    /\ \E k \in Served :
          /\ _estimation_cache = CacheAfter(k)
          /\ uuids_issued = k
    /\ estimate_inflight = [r \in Runs |-> NoEstimate]
    /\ cache_call = NoCacheCall
    /\ proposal_lookup = NoLookup
    /\ InitEmail
    /\ InitModify

\* /estimate up to "await pipeline.run": the pipeline draws the request id
EstimateRun(r) ==
    /\ estimate_inflight[r] = NoEstimate
    /\ uuids_issued < ServedBefore(uuids_issued) + MaxEstimates
    /\ uuids_issued' = uuids_issued + 1
    /\ estimate_inflight' =
           [estimate_inflight EXCEPT ![r] = [request_id |-> uuids_issued + 1]]
    /\ UNCHANGED << cacheFrame, _estimation_cache, cache_call,
                    proposal_lookup >>

\* the pipeline raises: the handler answers 500 and caches nothing
EstimateFailed(r) ==
    /\ estimate_inflight[r] # NoEstimate
    /\ estimate_inflight' = [estimate_inflight EXCEPT ![r] = NoEstimate]
    /\ UNCHANGED << cacheFrame, _estimation_cache, uuids_issued, cache_call,
                    proposal_lookup >>

\* the pipeline returned: the handler stores the result and answers
EstimateCached(r) ==
    /\ estimate_inflight[r] # NoEstimate
    /\ _estimation_cache' = Cached(_estimation_cache, estimate_inflight[r])
    /\ cache_call' = [before |-> _estimation_cache,
                      result |-> estimate_inflight[r]]
    /\ estimate_inflight' = [estimate_inflight EXCEPT ![r] = NoEstimate]
    /\ UNCHANGED << cacheFrame, uuids_issued, proposal_lookup >>

\* a proposal endpoint looks the request up
ProposalLookup(request_id) ==
    /\ LET i == DictGet(_estimation_cache, request_id)
       IN  proposal_lookup' =
               [request_id |-> request_id,
                cached |-> IF i = 0 THEN NoEstimate
                           ELSE _estimation_cache[i].value]
    /\ UNCHANGED << cacheFrame, _estimation_cache, uuids_issued,
                    estimate_inflight, cache_call >>

\* the ids the lookups ask for: the latest stored, the oldest issued, and
\* those around the first eviction
LookupIds == { 1, 2, _MAX_CACHE_SIZE, cache_call.result.request_id }

NextCache ==
    \/ \E r \in Runs : EstimateRun(r)
    \/ \E r \in Runs : EstimateFailed(r)
    \/ \E r \in Runs : EstimateCached(r)
    \/ \E id \in LookupIds : ProposalLookup(id)

SpecCache == InitCacheSpec /\ [][NextCache]_vars

(***************************************************************************)
(* email_pipeline.py: process_inbound_email, once per delivery of the      *)
(* email.  The invocations are background tasks of one event loop and      *)
(* interleave at their awaits.                                             *)
(***************************************************************************)
\* the emails delivered: with or without a Message-ID; without body and
\* attachments, with nothing but attachments of an unsupported type, or
\* with text to estimate
Emails ==
    { [message_id |-> m, content |-> c] :
          m \in { "", "m1" }, c \in { "empty", "unsupported", "text" } }

\* the rows whose message_id is m
RowsWith(rows, m) == { i \in DOMAIN rows : rows[i].message_id = m }

\* _message_id_exists
_message_id_exists(rows, message_id) ==
    IF message_id = "" THEN FALSE
    ELSE RowsWith(rows, message_id) # {}

\* the INSERT of _insert_request violates "message_id TEXT UNIQUE"; the
\* column is NULL for an email without Message-ID
UniqueViolation(rows, message_id) ==
    message_id # "" /\ RowsWith(rows, message_id) # {}

\* _update_request(row_id, status = ...)
_update_request(rows, id, status) ==
    [i \in DOMAIN rows |->
         IF i = id THEN [rows[i] EXCEPT !.status = status] ELSE rows[i]]

\* the calls of send functions one delivery makes
Send(d, fns) == [i \in DOMAIN fns |-> [by |-> d, fn |-> fns[i]]]

\* the "except Exception" clause at the end of process_inbound_email
Unhandled(d) ==
    /\ email_estimate_requests' =
           IF row_id[d] # 0
           THEN _update_request(email_estimate_requests, row_id[d], "failed")
           ELSE email_estimate_requests
    /\ emails_sent' = emails_sent
           \o Send(d, << "send_error_reply", "send_sales_notification" >>)
    /\ email_pc' = [email_pc EXCEPT ![d] = "failed"]
    /\ UNCHANGED << emailFrame, email, row_id >>

InitEmailSpec ==
    /\ InitBase
    /\ InitGraph
    /\ InitCall
    /\ InitCache
    /\ email \in Emails
    /\ email_estimate_requests = << >>
    /\ email_pc = [d \in Deliveries |-> "idle"]
    /\ row_id = [d \in Deliveries |-> 0]
    /\ emails_sent = << >>
    /\ InitModify

\* the webhook schedules process_inbound_email for a delivery
Deliver(d) ==
    /\ email_pc[d] = "idle"
    /\ email_pc' = [email_pc EXCEPT ![d] = "dedup"]
    /\ UNCHANGED << emailFrame, email, email_estimate_requests, row_id,
                    emails_sent >>

\* "if await _message_id_exists(email.message_id): return"
Deduplication(d) ==
    /\ email_pc[d] = "dedup"
    /\ email_pc' = [email_pc EXCEPT ![d] =
           IF _message_id_exists(email_estimate_requests, email.message_id)
           THEN "skipped" ELSE "insert"]
    /\ UNCHANGED << emailFrame, email, email_estimate_requests, row_id,
                    emails_sent >>

\* "row_id = await _insert_request(email)"
_insert_request(d) ==
    /\ email_pc[d] = "insert"
    /\ IF UniqueViolation(email_estimate_requests, email.message_id)
       THEN Unhandled(d)
       ELSE /\ email_estimate_requests' =
                   Append(email_estimate_requests,
                          [message_id |-> email.message_id,
                           status |-> "processing"])
            /\ row_id' =
                   [row_id EXCEPT ![d] = Len(email_estimate_requests) + 1]
            /\ email_pc' = [email_pc EXCEPT ![d] = "validate"]
            /\ UNCHANGED << emailFrame, email, emails_sent >>

\* the two validations: an error reply to the sender, the row marked
\* failed, and the return
Validate(d) ==
    /\ email_pc[d] = "validate"
    /\ IF email.content \in { "empty", "unsupported" }
       THEN /\ emails_sent' = emails_sent \o Send(d, << "send_error_reply" >>)
            /\ email_estimate_requests' =
                   _update_request(email_estimate_requests, row_id[d],
                                   "failed")
            /\ email_pc' = [email_pc EXCEPT ![d] = "done"]
       ELSE /\ email_pc' = [email_pc EXCEPT ![d] = "extract"]
            /\ UNCHANGED << emails_sent, email_estimate_requests >>
    /\ UNCHANGED << emailFrame, email, row_id >>

\* step 2: the requirement extraction returns, asks for clarification, or
\* raises after its retries
ExtractionOutcomes == { "parsed", "needs_clarification", "raised" }

extract_requirements(d, outcome) ==
    /\ email_pc[d] = "extract"
    /\ IF outcome = "raised" THEN Unhandled(d)
       ELSE IF outcome = "needs_clarification"
       THEN /\ emails_sent' = emails_sent
                   \o Send(d, << "send_error_reply",
                                 "send_sales_notification" >>)
            /\ email_estimate_requests' =
                   _update_request(email_estimate_requests, row_id[d],
                                   "failed")
            /\ email_pc' = [email_pc EXCEPT ![d] = "done"]
            /\ UNCHANGED << emailFrame, email, row_id >>
       ELSE /\ email_pc' = [email_pc EXCEPT ![d] = "estimate"]
            /\ UNCHANGED << emailFrame, email, email_estimate_requests,
                            row_id, emails_sent >>

\* step 3: pipeline.run returns or raises after its retries
run_pipeline(d, raised) ==
    /\ email_pc[d] = "estimate"
    /\ IF raised THEN Unhandled(d)
       ELSE /\ email_pc' = [email_pc EXCEPT ![d] = "reply"]
            /\ UNCHANGED << emailFrame, email, email_estimate_requests,
                            row_id, emails_sent >>

\* steps 4 to 6: the PDF, the reply to the sender (the proposal, or the
\* error reply when there is no PDF), the sales notification, and the row
\* marked completed
ReplyAndNotify(d, pdf_generated) ==
    /\ email_pc[d] = "reply"
    /\ emails_sent' = emails_sent
           \o Send(d, << IF pdf_generated THEN "send_proposal_reply"
                         ELSE "send_error_reply",
                         "send_sales_notification" >>)
    /\ email_estimate_requests' =
           _update_request(email_estimate_requests, row_id[d], "completed")
    /\ email_pc' = [email_pc EXCEPT ![d] = "done"]
    /\ UNCHANGED << emailFrame, email, row_id >>

NextEmail ==
    \/ \E d \in Deliveries : Deliver(d)
    \/ \E d \in Deliveries : Deduplication(d)
    \/ \E d \in Deliveries : _insert_request(d)
    \/ \E d \in Deliveries : Validate(d)
    \/ \E d \in Deliveries, outcome \in ExtractionOutcomes :
          extract_requirements(d, outcome)
    \/ \E d \in Deliveries, raised \in BOOLEAN : run_pipeline(d, raised)
    \/ \E d \in Deliveries, pdf_generated \in BOOLEAN :
          ReplyAndNotify(d, pdf_generated)

SpecEmail == InitEmailSpec /\ [][NextEmail]_vars

(***************************************************************************)
(* main.py: the two estimation agents of the process.  lifespan builds the *)
(* pipeline, whose agent reads the engine the pipeline loaded, and a       *)
(* second engine and agent for /modify.                                    *)
(***************************************************************************)
\* the subfeature names the two endpoints are asked about
ScanNames == { <<"a","b">>, <<"b","1">>, <<"c">>, <<"B","-","1">> }

\* what execute makes of a feature whose only subfeature is sf_name, on an
\* agent whose engine holds d
ScanOf(d, sf_name) ==
    LET feature == [name |-> <<"a","b">>, complexity |-> "Medium",
                    subfeatures |-> << sf_name >>]
        sf == ScanFeatureBody(d, feature).estimated.subfeatures[1]
    IN  [name |-> sf_name,
         matched |-> IF sf.was_calibrated THEN MatchedKey(d, sf_name)
                     ELSE None,
         was_calibrated |-> sf.was_calibrated,
         effort |-> sf.effort]

\* lifespan: "pipeline = ProjectPipeline()", then "calibration_engine =
\* CalibrationEngine()" and the agent of /modify on it; nothing loads that
\* engine
InitModifySpec ==
    /\ \E a \in StartupData, outcome \in LoadOutcomes, failing \in 1..MaxStore :
          /\ outcome = "load_raised" => failing <= Len(a)
          /\ outcome # "load_raised" => failing = 1
          /\ store = ConstructedStore(a, outcome, failing)
          /\ load_outcome = outcome
    /\ modify_store = << >>
    /\ estimate_scan = NoScan
    /\ modify_scan = NoScan
    /\ query = None
    /\ matched = None
    /\ info = NoInfo
    /\ InitExec
    /\ InitPlanning
    /\ InitTeam
    /\ store_call = NoStoreCall
    /\ InitRuns
    /\ InitGraph
    /\ InitCall
    /\ InitCache
    /\ InitEmail

\* /estimate: pipeline.run reaches "self.estimation_agent.execute"
estimate_project(sf_name) ==
    /\ estimate_scan' = ScanOf(store, sf_name)
    /\ UNCHANGED << modifyFrame, store, load_outcome, modify_store,
                    modify_scan >>

\* /modify: "estimation_agent.execute" on the updated features
modify_scope(sf_name) ==
    /\ modify_scan' = ScanOf(modify_store, sf_name)
    /\ UNCHANGED << modifyFrame, store, load_outcome, modify_store,
                    estimate_scan >>

NextModify ==
    \/ \E sf_name \in ScanNames : estimate_project(sf_name)
    \/ \E sf_name \in ScanNames : modify_scope(sf_name)

SpecModify == InitModifySpec /\ [][NextModify]_vars

(***************************************************************************)
(* Claims about runs of execute.                                           *)
(***************************************************************************)
\* the estimated subfeatures of a list of estimated features, in order
RECURSIVE AllSubfeatures(_)
AllSubfeatures(feats) ==
    IF feats = << >> THEN << >>
    ELSE Head(feats).subfeatures \o AllSubfeatures(Tail(feats))

\* a name the matcher calibrates: an entry is reported with sample_size >= 2
Calibrates(d, name) ==
    /\ ~get_calibration_info(d, name).is_none
    /\ get_calibration_info(d, name).sample_size >= 2

\* the <<feature, subfeature>> pairs of an input that calibration does not
\* cover, features in input order and subfeatures in order within each
RECURSIVE DeferredOfNames(_, _, _)
DeferredOfNames(d, feature_name, names) ==
    IF names = << >> THEN << >>
    ELSE (IF Head(names) # << >> /\ ~Calibrates(d, Head(names))
          THEN << << feature_name, Head(names) >> >> ELSE << >>)
         \o DeferredOfNames(d, feature_name, Tail(names))

RECURSIVE DeferredOf(_, _)
DeferredOf(d, feats) ==
    IF feats = << >> THEN << >>
    ELSE DeferredOfNames(d, Head(feats).name,
             IF Head(feats).subfeatures = << >>
             THEN << Head(feats).name >> ELSE Head(feats).subfeatures)
         \o DeferredOf(d, Tail(feats))

RequestPairs ==
    [i \in 1..Len(llm_request) |->
        << llm_request[i].feature, llm_request[i].subfeature >>]

(***************************************************************************)
(* C1: execute never lets a failure of the external size-estimate call     *)
(* through, and when the call fails in any way (exception, timeout,        *)
(* malformed or non-object JSON) the run completes with every deferred     *)
(* subfeature at raw 16.0 hours, an effort of 19.2.                        *)
(***************************************************************************)
C1_FailureFallback ==
    /\ pc # "raised"
    /\ llm_outcome \in FailureKinds =>
          /\ pc \in {"done", "scored"}
          /\ result.features = estimated_features
          /\ Len(SelectSeq(AllSubfeatures(result.features),
                           LAMBDA sf : ~sf.was_calibrated))
                = Len(llm_request)
          /\ \A i \in 1..Len(AllSubfeatures(result.features)) :
                LET sf == AllSubfeatures(result.features)[i]
                IN  ~sf.was_calibrated =>
                        sf.effort = FromTenths(192) /\ ~sf._pending_llm

\* the external call failed for a batch of 3 deferred items
C1_Witness ==
    /\ pc = "done"
    /\ llm_outcome \in FailureKinds
    /\ Len(llm_request) = 3

(***************************************************************************)
(* C4: when the entry under the name's strict key has sample_size < 2 and  *)
(* another entry with sample_size >= 2 is a Tier B or Tier C candidate,    *)
(* the subfeature is estimated as calibrated, never deferred to the        *)
(* external estimate.                                                      *)
(***************************************************************************)
C4_ScanPastWeakExact ==
    \A i \in 1..Len(llm_request) :
        LET n == llm_request[i].subfeature
        IN  (/\ HasKey(store, StrictKey(n))
             /\ Get(store, StrictKey(n)).sample_size < 2)
                => Candidates(store, n) = {}

(***************************************************************************)
(* C9: a subfeature is calibrated exactly when the matcher reports an      *)
(* entry with sample_size >= 2, and then its effort is the entry's         *)
(* avg_hours times 1.20, rounded to one decimal, the buffer applied once   *)
(* (avg_hours = 100 gives 120.0; total_hours = 200 with sample_size = 4    *)
(* gives 60.0); the fill-in of the external estimates leaves it so.        *)
(***************************************************************************)
CalibratedEffortOK(sf) ==
    LET i == get_calibration_info(store, sf.name)
    IN  /\ sf.was_calibrated <=> Calibrates(store, sf.name)
        /\ sf.was_calibrated =>
              /\ sf.effort = FromTenths(
                                 RoundHalfEven(i.avg_num * 12, i.avg_den * 10))
              /\ ~sf._pending_llm
              /\ i.avg_num = 1000 * i.avg_den => sf.effort = FromTenths(1200)
              /\ (i.avg_num = 2000 /\ i.sample_size = 4)
                    => sf.effort = FromTenths(600)

C9_BufferOnce ==
    /\ \A i \in 1..Len(AllSubfeatures(estimated_features)) :
          CalibratedEffortOK(AllSubfeatures(estimated_features)[i])
    /\ pc = "done" /\ features # << >> => result.features = estimated_features

\* external estimates were filled in next to a subfeature calibrated at 120.0
C9_Witness ==
    /\ pc = "done"
    /\ llm_outcome = "hours"
    /\ \E i \in 1..Len(AllSubfeatures(result.features)) :
          LET sf == AllSubfeatures(result.features)[i]
          IN  /\ sf.was_calibrated
              /\ sf.effort = FromTenths(1200)
              /\ get_calibration_info(store, sf.name).avg_num
                    = 1000 * get_calibration_info(store, sf.name).avg_den

(***************************************************************************)
(* C10: in one run the external size-estimate call is issued at most once, *)
(* only after every feature and subfeature has been scanned, with all the  *)
(* deferred items of all features; a finished run has issued it exactly    *)
(* when a subfeature was deferred, and never for an empty feature list.    *)
(***************************************************************************)
C10_OneBatchedCall ==
    /\ llm_calls <= 1
    /\ llm_calls = 1 =>
          /\ fi > Len(features)
          /\ llm_request = unmatched_items
          /\ RequestPairs = DeferredOf(store, features)
    /\ pc = "done" => (llm_calls = 1 <=> DeferredOf(store, features) # << >>)
    /\ features = << >> => llm_calls = 0

\* one call carried the deferred items of two different features
C10_Witness ==
    /\ pc = "done"
    /\ llm_calls = 1
    /\ Len(features) = 2
    /\ \E i, j \in 1..Len(llm_request) :
          llm_request[i].feature # llm_request[j].feature

\* execute has returned
Finished == pc \in {"done", "scored"}

\* the subfeatures of the result that calibration does not cover, features
\* in order and subfeatures in order within each
DeferredSubfeatures ==
    SelectSeq(AllSubfeatures(result.features),
              LAMBDA sf : ~Calibrates(store, sf.name))

\* the raw hours the call contract gives an entry of the response: the
\* entry itself when it is a positive number, 16.0 otherwise
ContractHour(h) ==
    IF h.type = "number" /\ h.value > 0 THEN h.value ELSE 160

\* round(h * 1.20, 1) for h in tenths
BufferedEffort(h) == FromTenths(RoundHalfEven(h * 12, 10))

(***************************************************************************)
(* C11: the k-th deferred subfeature of the result (features in input      *)
(* order, subfeatures in order within each) is the k-th item of the        *)
(* request, has was_calibrated = false, carries neither the pending marker *)
(* nor the 0.0 placeholder, and, for a response of the requested length,   *)
(* its effort is round(h_k * 1.20, 1) for the k-th validated number h_k.   *)
(***************************************************************************)
C11_RequestOrder ==
    Finished =>
        /\ Len(DeferredSubfeatures) = Len(llm_request)
        /\ \A k \in 1..Len(DeferredSubfeatures) :
              /\ DeferredSubfeatures[k].name = llm_request[k].subfeature
              /\ ~DeferredSubfeatures[k].was_calibrated
              /\ ~DeferredSubfeatures[k]._pending_llm
              /\ DeferredSubfeatures[k].effort # FloatZero
              /\ (llm_outcome = "hours"
                    /\ Len(llm_response) = Len(llm_request))
                  => DeferredSubfeatures[k].effort
                        = BufferedEffort(ContractHour(llm_response[k]))

(***************************************************************************)
(* C12: for a response whose length differs from the number of deferred    *)
(* items every item gets raw 16.0 hours; for a response of that length an  *)
(* entry that is not a number or is not positive gives raw 16.0 hours for  *)
(* its item only, and every other item keeps the returned value.           *)
(***************************************************************************)
C12_ResponseValidation ==
    (Finished /\ llm_outcome = "hours") =>
        /\ Len(llm_estimates) = Len(llm_request)
        /\ \A k \in 1..Len(llm_estimates) :
              llm_estimates[k] =
                  IF Len(llm_response) = Len(llm_request)
                  THEN ContractHour(llm_response[k]) ELSE 160

\* round(sum(sf["effort"] for sf in subfeatures), 1)
RoundedEffortSum(feature) ==
    FloatRound1(FloatSum([k \in 1..Len(feature.subfeatures) |->
                             feature.subfeatures[k].effort], FloatZero))

(***************************************************************************)
(* C13: in every result of execute each feature's total_hours is the sum   *)
(* of the efforts of its subfeatures rounded to one decimal, and its       *)
(* was_calibrated flag is true exactly when one of its subfeatures has     *)
(* was_calibrated = true.                                                  *)
(***************************************************************************)
C13_FeatureTotals ==
    Finished =>
        \A i \in 1..Len(result.features) :
            LET feature == result.features[i]
            IN  /\ feature.total_hours = RoundedEffortSum(feature)
                /\ feature.was_calibrated
                      <=> \E k \in 1..Len(feature.subfeatures) :
                             feature.subfeatures[k].was_calibrated

(***************************************************************************)
(* C14: for a non-empty feature list the returned total_hours is the sum   *)
(* of the features' total_hours (to one decimal), min_hours is             *)
(* round(total_hours * 0.85, 1), max_hours is round(total_hours * 1.15,    *)
(* 1), and min_hours <= total_hours <= max_hours.                          *)
(***************************************************************************)
C14_TotalsAndRange ==
    (Finished /\ features # << >>) =>
        /\ result.total_hours = FloatRound1(SumTotalHours(result.features))
        /\ result.min_hours
              = FloatRound1(FloatMul(result.total_hours,
                                     FloatFromRatio(85, 100)))
        /\ result.max_hours
              = FloatRound1(FloatMul(result.total_hours,
                                     FloatFromRatio(115, 100)))
        /\ FloatLeq(result.min_hours, result.total_hours)
        /\ FloatLeq(result.total_hours, result.max_hours)

\* the raw feature seen last is one the structuring keeps
RawKept == raw_feature.is_dict /\ Strip(raw_feature.name) # << >>

\* the names of the usable subfeatures of the raw feature seen last
RawSubNames ==
    SelectSeq([k \in 1..Len(raw_feature.subfeatures) |->
                  IF raw_feature.subfeatures[k].kind \in {"dict", "str"}
                  THEN Strip(raw_feature.subfeatures[k].name) ELSE << >>],
              LAMBDA n : n # << >>)

NamesOf(feats) == [i \in 1..Len(feats) |-> feats[i].name]

CoverageShare ==
    FloatFromRatio(
        Cardinality({ i \in 1..Len(result.features) :
                         result.features[i].was_calibrated }),
        Len(result.features))

\* min((coverage * 0.6 + strength * 0.4) * 100, 95.0) in float arithmetic
ScoreOf(coverage, strength) ==
    LET confidence ==
            FloatMul(FloatAdd(FloatMul(coverage, FloatFromRatio(6, 10)),
                              FloatMul(strength, FloatFromRatio(4, 10))),
                     FloatFromRatio(100, 1))
    IN  IF FloatLess(FloatFromRatio(95, 1), confidence)
        THEN FloatFromRatio(95, 1) ELSE confidence

(***************************************************************************)
(* C17: whatever the features, the flags and the engine argument, the      *)
(* value calculate_confidence returns lies in [0.0, 95.0], and it is 0.0   *)
(* for an empty feature list.                                              *)
(***************************************************************************)
C17_ConfidenceRange ==
    pc = "scored" =>
       /\ FloatLeq(FloatZero, confidence_score)
       /\ FloatLeq(confidence_score, FloatFromRatio(95, 1))
       /\ result.features = << >> => confidence_score = FloatZero

\* every feature calibrated and strong: the raw score 100.0 was capped
C17_Witness ==
    /\ pc = "scored"
    /\ confidence_args.has_engine
    /\ result.features # << >>
    /\ \A i \in 1..Len(result.features) :
          /\ result.features[i].was_calibrated
          /\ Calibrates(store, result.features[i].name)
          /\ get_calibration_info(store, result.features[i].name).sample_size
                >= 3
    /\ confidence_score = FloatFromRatio(95, 1)

(***************************************************************************)
(* C18: for a non-empty feature list the confidence is                     *)
(* min((coverage * 0.6 + strength * 0.4) * 100, 95.0), coverage being the  *)
(* share of features with was_calibrated and strength being 0.5 when no    *)
(* engine is passed (a share of the features otherwise); the               *)
(* domain-detection confidence has no influence.                           *)
(***************************************************************************)
C18_ConfidenceFormula ==
    (pc = "scored" /\ result.features # << >>) =>
       /\ ~confidence_args.has_engine =>
             confidence_score = ScoreOf(CoverageShare, FloatFromRatio(1, 2))
       /\ confidence_args.has_engine =>
             \E k \in 0..Len(result.features) :
                confidence_score
                   = ScoreOf(CoverageShare,
                             FloatFromRatio(k, Len(result.features)))
       /\ \A dc \in DomainConfidences :
             confidence_score
                = calculate_confidence(result.features, dc,
                                       confidence_args.has_engine, store)

\* no engine, one feature of two calibrated: 0.5 * 0.6 + 0.5 * 0.4
C18_Witness ==
    /\ pc = "scored"
    /\ ~confidence_args.has_engine
    /\ Len(result.features) = 2
    /\ result.features[1].was_calibrated
    /\ ~result.features[2].was_calibrated
    /\ confidence_score = FloatFromRatio(50, 1)

\* the subfeatures whose entry made the feature calibrated
CalibratingSubfeatures(feature) ==
    { k \in 1..Len(feature.subfeatures) :
         feature.subfeatures[k].was_calibrated }

\* the calibrated features with a matched entry of sample_size >= 3, when
\* one such entry among the matched ones is enough
StrongByAny ==
    Cardinality({ i \in 1..Len(result.features) :
        \E k \in CalibratingSubfeatures(result.features[i]) :
           get_calibration_info(store,
               result.features[i].subfeatures[k].name).sample_size >= 3 })

\* the same when every matched entry of the feature must be that large
StrongByAll ==
    Cardinality({ i \in 1..Len(result.features) :
        /\ CalibratingSubfeatures(result.features[i]) # {}
        /\ \A k \in CalibratingSubfeatures(result.features[i]) :
              get_calibration_info(store,
                  result.features[i].subfeatures[k].name).sample_size >= 3 })

(***************************************************************************)
(* C19: with an engine passed, the strength is the number of calibrated    *)
(* features whose matched entry (the entry that calibrated the feature     *)
(* during estimation) has sample_size >= 3, over the number of features;   *)
(* the score is the one that strength gives.                               *)
(***************************************************************************)
C19_StrengthFromMatchedEntry ==
    (pc = "scored" /\ confidence_args.has_engine /\ result.features # << >>)
       => \E strong \in { StrongByAll, StrongByAny } :
             confidence_score
                = ScoreOf(CoverageShare,
                          FloatFromRatio(strong, Len(result.features)))

\* a phase value in tenths of an hour
PhaseTenths ==
    [p \in DOMAIN phase_breakdown |-> RoundTenths(phase_breakdown[p])]

(***************************************************************************)
(* C20: the phase split multiplies total_hours by the ratios 0.40, 0.35,   *)
(* 0.15 and 0.10, which sum to 1.0, rounds each phase to one decimal, and  *)
(* the four phases sum to round(total_hours, 1) within 0.4.                *)
(***************************************************************************)
C20_PhaseSplit ==
    /\ PHASE_RATIOS.frontend + PHASE_RATIOS.backend + PHASE_RATIOS.qa
          + PHASE_RATIOS.pm_ba = 100
    /\ plan_pc = "planned" =>
          /\ phase_breakdown.frontend
                = FloatRound1(FloatMul(plan_total, FloatFromRatio(40, 100)))
          /\ phase_breakdown.backend
                = FloatRound1(FloatMul(plan_total, FloatFromRatio(35, 100)))
          /\ phase_breakdown.qa
                = FloatRound1(FloatMul(plan_total, FloatFromRatio(15, 100)))
          /\ phase_breakdown.pm_ba
                = FloatRound1(FloatMul(plan_total, FloatFromRatio(10, 100)))
          /\ LET sum == PhaseTenths.frontend + PhaseTenths.backend
                           + PhaseTenths.qa + PhaseTenths.pm_ba
                 diff == sum - RoundTenths(plan_total)
             IN  diff <= 4 /\ 0 - diff <= 4

\* a total whose rounded phases do not add up to the rounded total
C20_Witness ==
    /\ plan_pc = "planned"
    /\ ~IsZero(plan_total)
    /\ PhaseTenths.frontend + PhaseTenths.backend + PhaseTenths.qa
          + PhaseTenths.pm_ba # RoundTenths(plan_total)

(***************************************************************************)
(* Claims about the team recommendation.                                   *)
(***************************************************************************)
\* the least number of engineers whose hours over the weeks cover the
\* total: ceil(total_hours / (weeks * 40)), all in tenths
EngineersFor(total, weeks) ==
    CHOOSE k \in 0..(total \div 40 + 1) :
       /\ k * 40 * weeks >= total
       /\ k > 0 => (k - 1) * 40 * weeks < total

Max(a, b) == IF a >= b THEN a ELSE b

(***************************************************************************)
(* C21: with weeks = timeline_weeks, or 1 when timeline_weeks <= 0, the    *)
(* engineers needed are max(2, ceil(total_hours / (weeks * 40))); frontend *)
(* and backend are max(1, ceil(needed * 0.5)), qa is max(1, needed // 3),  *)
(* pm is 1, and every count is at least 1.                                 *)
(***************************************************************************)
C21_TeamRecommendation ==
    team_pc = "planned" =>
       LET weeks == IF team_weeks <= 0 THEN 10 ELSE team_weeks
           needed == Max(2, EngineersFor(team_total, weeks))
           half == CHOOSE h \in 0..needed : 2 * h >= needed /\ 2 * (h - 1) < needed
       IN  /\ team_recommendation.frontend = Max(1, half)
           /\ team_recommendation.backend = Max(1, half)
           /\ team_recommendation.qa = Max(1, needed \div 3)
           /\ team_recommendation.pm = 1
           /\ \A role \in DOMAIN team_recommendation :
                 team_recommendation[role] >= 1

\* 220 hours in 4 weeks: 160 hours per engineer, 2 engineers, 1/1/1/1
C21_Witness ==
    /\ team_pc = "planned"
    /\ team_total = 2200
    /\ team_weeks = 40
    /\ team_recommendation = [frontend |-> 1, backend |-> 1, qa |-> 1, pm |-> 1]

(***************************************************************************)
(* Claims about the store under loads and additions.                       *)
(***************************************************************************)
\* the keys of a list of entries
KeysOf(d) == { d[i].key : i \in 1..Len(d) }

(***************************************************************************)
(* C22: after a load, every key of the load holds the entry of that load,  *)
(* total_hours = avg_hours * sample_size, whatever earlier loads or        *)
(* additions had stored under it; the keys the load does not mention keep  *)
(* their entries, and no other key appears.                                *)
(***************************************************************************)
C22_LastLoadWins ==
    store_call.op = "load" =>
       /\ \A i \in 1..Len(store_call.aggregated_data) :
             LET data == store_call.aggregated_data[i]
             IN  /\ HasKey(store, data.key)
                 /\ Get(store, data.key)
                       = [key |-> data.key,
                          total_hours |-> data.avg_hours * data.sample_size,
                          sample_size |-> data.sample_size]
       /\ \A k \in KeysOf(store_call.before)
                      \ KeysOf(store_call.aggregated_data) :
             HasKey(store, k) /\ Get(store, k) = Get(store_call.before, k)
       /\ KeysOf(store)
             = KeysOf(store_call.before) \cup KeysOf(store_call.aggregated_data)

\* a load replaced an entry that held other values, and left another key
\* alone
C22_Witness ==
    /\ store_call.op = "load"
    /\ \E i \in 1..Len(store_call.aggregated_data) :
          LET data == store_call.aggregated_data[i]
          IN  /\ HasKey(store_call.before, data.key)
              /\ Get(store_call.before, data.key) # Get(store, data.key)
              /\ Get(store_call.before, data.key).sample_size
                    > data.sample_size
    /\ KeysOf(store_call.before) \ KeysOf(store_call.aggregated_data) # {}

C25_StoreReadOnly == [][store' = store]_vars

\* a request ran from start to score while another one, with a deferred
\* subfeature, was waiting for its size estimate
C25_Witness ==
    /\ store # << >>
    /\ \E r1, r2 \in Runs :
          /\ run_pc[r1] = "await_llm"
          /\ run_unmatched[r1] # << >>
          /\ run_pc[r2] = "scored"
          /\ run_result[r2].features # << >>

(***************************************************************************)
(* Claims about a run of the pipeline graph.                               *)
(***************************************************************************)
\* the nodes in the order of the edges
NodeOrder ==
    << "domain_detection", "template_expansion", "feature_structuring",
       "estimation", "confidence_calculation", "tech_stack", "proposal",
       "planning", "build_result" >>

\* the events of a complete run
EventOrder ==
    << "domain_detection_started", "domain_detection_done",
       "template_expansion_started", "template_expansion_done",
       "feature_structuring_started", "feature_structuring_done",
       "estimation_started", "estimation_done", "proposal_started",
       "completed" >>

IsPrefix(p, q) == Len(p) <= Len(q) /\ p = SubSeq(q, 1, Len(p))

StagesOf(events) == [i \in 1..Len(events) |-> events[i].stage]

(***************************************************************************)
(* C26: in a run of the graph with a progress callback the nodes run once  *)
(* each in the order of the edges and the events come in the fixed order,  *)
(* each once; a run that reaches the end has run every node and emitted    *)
(* all ten events, "completed" last and carrying the final result.         *)
(***************************************************************************)
C26_ProgressEventOrder ==
    /\ IsPrefix(graph_ran, NodeOrder)
    /\ graph_state.has_callback =>
          IsPrefix(StagesOf(graph_events), EventOrder)
    /\ graph_node = "__end__" =>
          /\ graph_ran = NodeOrder
          /\ graph_state.has_callback =>
                /\ StagesOf(graph_events) = EventOrder
                /\ graph_events[Len(graph_events)].result
                      = graph_state.final_result
                /\ graph_state.final_result.built

\* a run with a callback reached the end
C26_Witness ==
    /\ graph_node = "__end__"
    /\ graph_state.has_callback
    /\ Len(graph_events) = 10
    /\ graph_events[10].stage = "completed"
    /\ graph_events[10].result.total_hours = 2200

(***************************************************************************)
(* Claims about the LLM call.                                              *)
(***************************************************************************)
\* an attempt that failed with an HTTP or timeout error
FailedAttempt(o) == o.failure \in HttpFailures

\* a 2xx body that carries choices[0].message.content as a string
WellFormed(body) ==
    /\ body.kind = "object"
    /\ "choices" \in DOMAIN body.fields
    /\ body.fields["choices"].kind = "array"
    /\ Len(body.fields["choices"].items) > 0
    /\ LET first == body.fields["choices"].items[1]
       IN  /\ first.kind = "object"
           /\ "message" \in DOMAIN first.fields
           /\ first.fields["message"].kind = "object"
           /\ "content" \in DOMAIN first.fields["message"].fields
           /\ first.fields["message"].fields["content"].kind = "str"

\* a response arrived and its structure is invalid
InvalidResponse(o) == o.failure = "" /\ ~WellFormed(o.body)

\* C27: A call of call_llm or complete makes at most max_retries + 1 HTTP
\* attempts; an attempt is followed by another only if it failed with an HTTP
\* or timeout error; the content of the first successful attempt is returned
\* at once; a structurally invalid response raises ValueError without a
\* retry; and after max_retries + 1 failed attempts the last error is raised.
C27_RetryLoop ==
    LET n == Len(http_log)
    IN  /\ n <= max_retries + 1
        /\ \A i \in 1..(n - 1) : FailedAttempt(http_log[i])
        /\ n > 0 /\ http_log[n].failure = "" /\ WellFormed(http_log[n].body)
             => /\ call_pc \in { "returned", "idle" }
                /\ call_result.raised = ""
                /\ call_result.content =
                     http_log[n].body.fields["choices"].items[1]
                         .fields["message"].fields["content"].text
        /\ n > 0 /\ InvalidResponse(http_log[n])
             => /\ call_pc \in { "raised", "idle" }
                /\ call_result.raised = "ValueError"
        /\ n = max_retries + 1 /\ FailedAttempt(http_log[n])
             => /\ call_pc \in { "raised", "idle" }
                /\ call_result.raised = http_log[n].failure
                /\ call_result.error = [type |-> http_log[n].failure,
                                        attempt |-> n]
        /\ n > 0 /\ n < max_retries + 1 /\ FailedAttempt(http_log[n])
             => call_pc = "loop"

Senders == { emails_sent[i].by : i \in DOMAIN emails_sent }

\* C29: Of the invocations of process_inbound_email for one email with a
\* non-empty message_id, at most one sends a reply or a sales notification;
\* every other one that is over was skipped as a duplicate and sent nothing.
C29_OneInvocationSends ==
    email.message_id # "" =>
        /\ Cardinality(Senders) <= 1
        /\ \A d \in Deliveries :
              /\ Senders \ { d } # {}
              /\ email_pc[d] \in { "skipped", "done", "failed" }
              => email_pc[d] = "skipped" /\ d \notin Senders

(***************************************************************************)
(* Claims about /modify.                                                   *)
(***************************************************************************)
\* C30: A subfeature name estimated by /modify and by /estimate in one
\* process is calibrated by both or by neither, and when calibrated, from
\* the same entry and with the same effort.
C30_SameCalibration ==
    (estimate_scan # NoScan /\ modify_scan.name = estimate_scan.name)
        => modify_scan = estimate_scan

====
